---- MODULE Spec2Model ----
(***************************************************************************)
(* Model of the montytest worker (src/worker/games.py): the task           *)
(* controller run_games, launch_fastchess and the match supervisor         *)
(* parse_fastchess_output, together with the match-runner child, the       *)
(* coordinator's replies and the wall clock they run against.              *)
(***************************************************************************)
EXTENDS Integers, Sequences, FiniteSets, TLC

(* ----------------------------- bounds ---------------------------------- *)

\* lines the match-runner children print during one task
MaxLines == 4
\* task["num_games"] is drawn from 2, 4, .., 2*MaxPairs
MaxPairs == 3
\* worker_concurrency // threads is drawn from 1..MaxConcurrency
MaxConcurrency == 1
\* run["args"]["sprt"]["batch_size"] is drawn from 1..MaxSprtBatch
MaxSprtBatch == 1
\* processes that call cache_write on the shared cache directory
MaxWriters == 2
\* active_cores of a call of verify_signature is drawn from 1..MaxCores
MaxCores == 2
\* req["w_params"] and req["b_params"] hold up to MaxParams parameters each
MaxParams == 2
\* lines the datagen child prints during one task
MaxDatagenLines == 2

(* ------------------------- program constants --------------------------- *)

\* a retry loop that runs once more
UpdateAttempts_OneMore == 5 + 1

\* for _ in range(5)
UpdateAttempts == 5

\* seconds between two attempts
UPDATE_RETRY_TIME == 15

\* if attempt > 5: raise
NetAttempts == 5

\* seconds p.wait waits for the child after the interrupt
FASTCHESS_KILL_TIMEOUT == 15

None == <<>>

(* ------------------------------ values --------------------------------- *)

RECURSIVE SumSeq(_)
SumSeq(s) == IF s = <<>> THEN 0 ELSE Head(s) + SumSeq(Tail(s))

Max(a, b) == IF a >= b THEN a ELSE b
Min(a, b) == IF a <= b THEN a ELSE b

ZeroStats ==
    [wins |-> 0, losses |-> 0, draws |-> 0, crashes |-> 0, time_losses |-> 0,
     pentanomial |-> <<0, 0, 0, 0, 0>>]

\* task["stats"] as the coordinator hands it out: nothing played yet, one
\* pair played, or a block whose pentanomial does not match its game count
InputStats ==
    { ZeroStats,
      [ZeroStats EXCEPT !.wins = 1, !.losses = 1, !.pentanomial = <<0, 0, 1, 0, 0>>],
      [ZeroStats EXCEPT !.wins = 1] }

TotalGames(s) == s.wins + s.losses + s.draws

\* "Games: G, Wins: W, Losses: L, Draws: D, Points: P (" as <<G, W, L, D>>
WLDCaptures ==
    { <<2, 1, 1, 0>>, <<2, 0, 0, 2>>, <<2, 1, 0, 0>>, <<4, 1, 1, 2>> }

\* "Ptnml(0-2): [a, b, c, d, e]"
PtnmlCaptures ==
    { <<0, 0, 1, 0, 0>>, <<0, 0, 2, 0, 0>>, <<0, 1, 0, 1, 0>> }

\* one line of the child's output, by what the parser matches in it
Lines ==
    { [kind |-> k, v |-> None] :
        k \in {"finished", "no_option", "invalid_value", "disconnects",
               "on_time", "bad_points", "other"} }
    \cup { [kind |-> "wld", v |-> c] : c \in WLDCaptures }
    \cup { [kind |-> "ptnml", v |-> c] : c \in PtnmlCaptures }

\* what one call of send_api_post_request can produce
Replies == {"alive", "not_alive", "error", "no_task_alive", "exception", "fatal"}

Errors ==
    {"AssertionError", "Finished match uncleanly", "RunException",
     "Failed to parse WLD line", "Too many failed update attempts",
     "FatalException", "KeyError", "past end time", "Unable to start fastchess",
     "WorkerException", "Exception"}

(* ------------------------------ state ---------------------------------- *)

VARIABLES
    pc,                 \* where the worker is
    task,               \* run["my_task"] and the run["args"] that matter
    stats,              \* result["stats"]
    spsa,               \* result["spsa"] as <<num_games, wins, losses, draws>>, None when absent
    games_remaining,    \* run_games
    batch_size,         \* run_games
    games_to_play,      \* run_games
    task_alive,         \* value launch_fastchess hands to run_games
    raised,             \* the exception in flight, "none" when there is none
    saved_stats,        \* parse_fastchess_output
    fastchess_WLD_results,
    fastchess_ptnml_results,
    num_games_updated,
    num_games_finished,
    attempt,            \* iterations of the retry loop already started
    update_succeeded,
    q,                  \* the Queue fed by enqueue_output
    child,              \* "none", "running", "exited"
    expired,            \* datetime.now(timezone.utc) >= end_time
    interrupted,        \* send_sigint was called for this child
    killed,             \* kill_process was called for this child
    waited,             \* seconds p.wait(timeout=...) took for this child
    emitted,            \* lines printed so far in this task
    finished_seen,      \* a "Finished match" line was parsed cleanly by this supervisor
    test_expired,       \* what the last evaluation of the while condition saw
    posts,              \* the last POST sent and its reply; committed: the update_task
                        \* payloads the coordinator accepted (reply with task_alive true)
    spawned,            \* children started so far
    returned,           \* what parse_fastchess_output ended with, "none" while it runs
    cache_files,        \* the cache directory: name -> the writer whose file is linked there, 0 when absent
    temp,               \* the bytes in each writer's temporary file
    temp_names,         \* whether the name of each writer's temporary file
                        \* is in the cache directory
    wpc,                \* where each writer is in cache_write
    wargs,              \* the arguments of each writer's call of cache_write
    linked,             \* os.link of this writer succeeded
    followed,           \* this call began after another call for the same name had linked and returned
    seen,               \* name -> the first result of cache_read that held bytes
    last_read,          \* the result of the last cache_read
    npc,                \* where establish_validated_net is, "none" when it is not called
    nargs,              \* its arguments net and global_cache
    dest,               \* the file testing_dir / net
    content,            \* download_net: content
    net_attempt,        \* establish_validated_net: attempt
    nerror,             \* the exception in flight in establish_validated_net
    sleeps,             \* the waitTime of every time.sleep so far
    gets,               \* GET requests sent to remote
    cache_reads,        \* calls of cache_read by download_net
    dest_writes,        \* calls of write_bytes on testing_dir / net
    dpc,                \* where send_datagen_result is, "none" when it is not called
    dattempt,           \* iterations of its retry loop already started
    dreplies,           \* what each of its POSTs produced
    wrap_args,          \* cls, msg and e of a call cls(msg, e=e)
    wrapped,            \* the objects the calls returned, in order
    engines,            \* the engines of the task: the signatures expected of them and
                        \* what queue.get() hands verify_signature for each
    bench_pc,           \* where verify_signature is, "none" when it is called on its own
    bench_args,         \* its arguments signature and active_cores, and what each
                        \* child of its engine finds in the output of bench
    queue,              \* verify_signature: queue
    bench_result,       \* what it returned or raised
    verifications,      \* the engines run_games has called verify_signature on
    cmd_pc,             \* where launch_fastchess is with its command, "none" when
                        \* the command is not followed
    launch_args,        \* cmd as run_games built it, spsa_tuning, and the reply req
    cmd,                \* launch_fastchess: cmd
    w_params,           \* launch_fastchess: w_params
    b_params,           \* launch_fastchess: b_params
    gpc,                \* where run_datagen_games is, "none" when it is not called
    returncode,         \* p.returncode of the datagen child, "None" while it runs
    games_file,         \* whether testing_dir / games_name exists
    binpack_created,    \* whether the child has created it
    datagen_wld,        \* parse_datagen_output: wld, None while it is unbound
    lines_read,         \* lines parse_datagen_output has read
    parsed,             \* how parse_datagen_output ended, "none" while it runs
    datagen_result,     \* run_datagen_games: result["stats"]
    datagen_raised,     \* the exception that left run_datagen_games, "none" if none
    epc,                \* where setup_engine is, "none" when it is not called
    eargs,              \* its arguments sha and global_cache, and whether the
                        \* destination existed when it was called
    destination,        \* whether the file destination exists
    tmp_dir,            \* whether the directory tmp_dir exists
    blob,               \* setup_engine: blob
    blob_needs_write,   \* setup_engine: blob_needs_write
    make_runs,          \* how often make was started
    engine_raised,      \* the exception in flight in setup_engine, "none" if none
    script,             \* the lines a child that plays every pair has still to
                        \* print, <<>> for any other child
    rpc,                \* where the loop of parse_fastchess_output is when the
                        \* reader threads are followed, "none" when they are not
    reader_child,       \* "running" or "exited": what p.poll() would find
    out_count,          \* lines the child has written to stdout
    err_count,          \* lines the child has written to stderr
    stdout_pipe,        \* lines written to stdout that t_output has not read
    stderr_pipe,        \* lines written to stderr that t_error has not read
    fifo,               \* the Queue q
    taken               \* the lines q.get_nowait() has returned, in order

run_games_vars ==
    <<pc, task, stats, spsa, games_remaining, batch_size, games_to_play,
      task_alive, raised, saved_stats, fastchess_WLD_results,
      fastchess_ptnml_results, num_games_updated, num_games_finished,
      attempt, update_succeeded, q, child, expired, interrupted, killed,
      waited, emitted, finished_seen, test_expired, posts, spawned, returned>>

cache_vars ==
    <<cache_files, temp, temp_names, wpc, wargs, linked, followed, seen, last_read>>

net_vars ==
    <<npc, nargs, dest, content, net_attempt, nerror, sleeps, gets, cache_reads,
      dest_writes>>

datagen_vars == <<dpc, dattempt, dreplies>>

exception_vars == <<wrap_args, wrapped>>

bench_vars == <<engines, bench_pc, bench_args, queue, bench_result, verifications>>

command_vars == <<cmd_pc, launch_args, cmd, w_params, b_params>>

run_datagen_vars ==
    <<gpc, returncode, games_file, binpack_created, datagen_wld, lines_read,
      parsed, datagen_result, datagen_raised>>

engine_vars ==
    <<epc, eargs, destination, tmp_dir, blob, blob_needs_write, make_runs,
      engine_raised>>

\* the command of the match runner, the datagen run, the build of an engine
reader_vars ==
    <<rpc, reader_child, out_count, err_count, stdout_pipe, stderr_pipe, fifo, taken>>

more_vars == <<command_vars, run_datagen_vars, engine_vars, script, reader_vars>>

\* the state of the functions that run beside the match: the global cache,
\* the fetch of a network file, the report of a datagen result
helper_vars ==
    <<cache_vars, net_vars, datagen_vars, exception_vars, bench_vars, more_vars>>

\* what the cache functions leave alone
outside_cache ==
    <<run_games_vars, net_vars, datagen_vars, exception_vars, bench_vars, more_vars>>

\* what establish_validated_net leaves alone, the cache apart
outside_net ==
    <<run_games_vars, datagen_vars, exception_vars, bench_vars, more_vars>>

\* what send_datagen_result leaves alone
outside_datagen ==
    <<run_games_vars, cache_vars, net_vars, exception_vars, bench_vars, more_vars>>

\* what the construction of an exception leaves alone
outside_exception ==
    <<run_games_vars, cache_vars, net_vars, datagen_vars, bench_vars, more_vars>>

\* what a call of verify_signature on its own leaves alone
outside_bench ==
    <<run_games_vars, cache_vars, net_vars, datagen_vars, exception_vars, engines,
      more_vars>>

\* what the splicing of the command leaves alone
outside_command ==
    <<run_games_vars, cache_vars, net_vars, datagen_vars, exception_vars, bench_vars,
      run_datagen_vars, engine_vars, script, reader_vars>>

\* what run_datagen_games leaves alone, send_datagen_result apart
outside_run_datagen ==
    <<run_games_vars, cache_vars, net_vars, exception_vars, bench_vars, command_vars,
      engine_vars, script, reader_vars>>

\* what setup_engine leaves alone, the cache apart
outside_engine ==
    <<run_games_vars, net_vars, datagen_vars, exception_vars, bench_vars,
      command_vars, run_datagen_vars, script, reader_vars>>

\* what a child with a script leaves alone, the match apart
outside_script ==
    <<cache_vars, net_vars, datagen_vars, exception_vars, bench_vars,
      command_vars, run_datagen_vars, engine_vars, reader_vars>>

\* what the reader threads and the loop that takes their lines leave alone
outside_reader ==
    <<run_games_vars, cache_vars, net_vars, datagen_vars, exception_vars,
      bench_vars, command_vars, run_datagen_vars, engine_vars, script>>

vars == <<run_games_vars, helper_vars>>

(* ------------------------------- Init ---------------------------------- *)

Writers == 1..MaxWriters

\* global_cache: "" when the worker has none
Caches == {"", "cache"}

\* a network file name, by the hex digits it carries
Names == {1, 2}

\* the blobs handed to cache_write, as bytes
Blobs == {<<1, 1>>, <<2, 2>>}

NoArgs == [cache |-> "", name |-> 1, data |-> <<>>]

\* what cache_read returns: None or the bytes
Absent == [found |-> FALSE, bytes |-> <<>>]

Bytes(b) == [found |-> TRUE, bytes |-> b]

InitCache ==
    /\ cache_files = [n \in Names |-> 0]
    /\ temp = [w \in Writers |-> <<>>]
    /\ temp_names = [w \in Writers |-> FALSE]
    /\ wpc = [w \in Writers |-> "idle"]
    /\ wargs = [w \in Writers |-> NoArgs]
    /\ linked = [w \in Writers |-> FALSE]
    /\ followed = [w \in Writers |-> FALSE]
    /\ seen = [n \in Names |-> Absent]
    /\ last_read = [cache |-> "", name |-> 1, result |-> Absent]

NoPost ==
    [api |-> "none", stats |-> ZeroStats, spsa |-> None, games |-> 0,
     updated |-> 0, batch_size |-> 0, games_to_play |-> 0, child |-> 0,
     reply |-> "none"]

\* round(tc_limit_ltc / tc_limit) for the time control of the runs: the runs
\* are played at the long time control
Intervals == {1}

\* a run is an SPRT test, an SPSA tuning session or a fixed-games test
Tasks ==
    { t \in [stats : InputStats,
             num_games : {2 * k : k \in 1..MaxPairs},
             spsa : BOOLEAN,
             sprt_batch : 0..MaxSprtBatch,
             games_concurrency : 1..MaxConcurrency,
             interval : Intervals] :
        ~(t.spsa /\ t.sprt_batch > 0) }

\* the bench signatures the runs expect and the engines print
Signatures == {1, 2}

\* worker_concurrency * 61362 / (1 + math.tanh((worker_concurrency - 1) / 8)),
\* rounded up: the least sum of the NPS of worker_concurrency bench children
\* whose mean is not below the threshold of run_games
RequiredNps(worker_concurrency) ==
    CASE worker_concurrency = 1 -> 61362
      [] worker_concurrency = 2 -> 109151
      [] worker_concurrency = 3 -> 147870

\* what one child can measure: NPS values next to the threshold
NpsNear(worker_concurrency) ==
    LET nps == RequiredNps(worker_concurrency) \div worker_concurrency
    IN  {nps - 1, nps, nps + 1}

\* run_single_bench found a line with "Bench: " and put (bench_sig, bench_nps)
Report(sig, nps) == [put |-> TRUE, printed |-> TRUE, sig |-> sig, nps |-> nps]

\* it found no such line and put (None, None)
NoBench == [put |-> TRUE, printed |-> FALSE, sig |-> 0, nps |-> 0]

\* it raised before queue.put
NoPut == [put |-> FALSE, printed |-> FALSE, sig |-> 0, nps |-> 0]

\* what the children of the base engine can put on the queue
BaseReports(worker_concurrency) ==
    {NoBench} \cup
    {Report(sig, nps) : sig \in Signatures, nps \in NpsNear(worker_concurrency)}

\* what the children of the new engine can put on the queue: its NPS is not used
NewReports(worker_concurrency) ==
    {NoBench} \cup
    {Report(sig, RequiredNps(worker_concurrency) \div worker_concurrency) :
        sig \in Signatures}

\* run["args"]["base_signature"], run["args"]["new_signature"], whether
\* new_engine is the file base_engine, and the results of verify_signature's
\* queue.get() calls on each engine, for a worker with threads = 1
Engines(t) ==
    LET cores == t.games_concurrency
    IN  { e \in [base_signature : {1},
                 new_signature : Signatures,
                 new_engine : {"base", "new"},
                 base : [1..cores -> BaseReports(cores)],
                 new : [1..cores -> BaseReports(cores)]] :
            IF e.new_engine = "base"
            THEN e.new = e.base
            ELSE \A c \in 1..cores : e.new[c] \in NewReports(cores) }

\* engines that print the signature the run expects, on a host fast enough
FitEngines(t) ==
    LET cores == t.games_concurrency
        fast == [c \in 1..cores |-> Report(1, (RequiredNps(cores) \div cores) + 1)]
    IN  [base_signature |-> 1, new_signature |-> 1, new_engine |-> "base",
         base |-> fast, new |-> fast]

NoResult == [raises |-> "none", sum |-> 0, cores |-> 0]

\* a token of the command vector: an argument as run_games wrote it, or
\* "option.{}={}".format(name, k)
Arg(text) == [kind |-> "arg", text |-> text]

Option(name, k) == [kind |-> "option", name |-> name, k |-> k]

Sentinel == Arg("_spsa_")

\* what run_games puts before, between and after the two sentinels
Pieces == {<<Arg("-engine")>>, <<Arg("-engine"), Arg("-each")>>}

\* x["value"] of a parameter, in halves: -0.5, 1 and 1.5
Values == {-1, 2, 3}

\* random.uniform(0, 1), in halves: 0 and 0.5
Rolls == {0, 1}

\* the lists of up to n parameters
RECURSIVE Params(_)
Params(n) ==
    IF n = 0 THEN {<<>>}
    ELSE Params(n - 1) \cup
         { Append(ps, [name |-> Len(ps) + 1, value |-> v]) :
             ps \in {qs \in Params(n - 1) : Len(qs) = n - 1}, v \in Values }

\* the command of launch_fastchess is not followed
CommandNotFollowed ==
    /\ cmd_pc = "none"
    /\ launch_args = [cmd |-> <<>>, spsa_tuning |-> FALSE,
                      req |-> [w_params |-> <<>>, b_params |-> <<>>]]
    /\ cmd = <<>>
    /\ w_params = <<>>
    /\ b_params = <<>>

\* the counts of a "finished games" line: wins, losses, draws
Wlds == {<<1, 0, 1>>, <<0, 2, 0>>, <<1, 1, 1>>}

\* what one line of the datagen child is to parse_datagen_output: a line
\* without "finished games", one with it and three counts, one with it that
\* does not parse
DatagenLines ==
    {[kind |-> "other", wld |-> None], [kind |-> "unparsable", wld |-> None]}
    \cup {[kind |-> "finished games", wld |-> c] : c \in Wlds}

\* the variables of run_datagen_games before its child is started
DatagenLocals ==
    /\ returncode = "None"
    /\ games_file = FALSE
    /\ binpack_created = FALSE
    /\ datagen_wld = None
    /\ lines_read = 0
    /\ parsed = "none"
    /\ datagen_raised = "none"

\* task["stats"] of a datagen task as run_games hands it on, its assertion
\* passed: nothing played, or what an earlier datagen run wrote for a win and
\* a loss, and for two wins and two draws
DatagenBaselines ==
    { ZeroStats,
      [ZeroStats EXCEPT !.wins = 1, !.losses = 1, !.pentanomial = <<0, 0, 1, 0, 0>>],
      [ZeroStats EXCEPT !.wins = 2, !.draws = 2, !.pentanomial = <<0, 0, 0, 2, 0>>] }

\* run_datagen_games is not called
DatagenNotRun ==
    /\ gpc = "none"
    /\ DatagenLocals
    /\ datagen_result = ZeroStats

\* setup_engine is not called
EngineNotSetUp ==
    /\ epc = "none"
    /\ eargs = [sha |-> 1, global_cache |-> "", existed |-> FALSE]
    /\ destination = FALSE
    /\ tmp_dir = FALSE
    /\ blob = <<>>
    /\ blob_needs_write = FALSE
    /\ make_runs = 0
    /\ engine_raised = "none"

\* the pipes and the queue before the child is started
ReaderLocals ==
    /\ reader_child = "running"
    /\ out_count = 0
    /\ err_count = 0
    /\ stdout_pipe = <<>>
    /\ stderr_pipe = <<>>
    /\ fifo = <<>>
    /\ taken = <<>>

\* the reader threads are not followed
ReaderNotStarted == rpc = "none" /\ ReaderLocals

\* none of the functions above is called
MoreNotCalled ==
    /\ CommandNotFollowed
    /\ DatagenNotRun
    /\ EngineNotSetUp
    /\ script = <<>>
    /\ ReaderNotStarted

\* verify_signature is not called on its own
BenchNotCalled ==
    /\ bench_pc = "none"
    /\ bench_args = [signature |-> 1, active_cores |-> 1, children |-> <<NoBench>>]
    /\ queue = <<>>
    /\ bench_result = NoResult
    /\ verifications = <<>>

\* the variables of run_games before it has run
InitLocals ==
    /\ stats = ZeroStats
    /\ spsa = None
    /\ games_remaining = 0
    /\ batch_size = 0
    /\ games_to_play = 0
    /\ task_alive = TRUE
    /\ raised = "none"
    /\ saved_stats = ZeroStats
    /\ fastchess_WLD_results = None
    /\ fastchess_ptnml_results = None
    /\ num_games_updated = 0
    /\ num_games_finished = 0
    /\ attempt = 0
    /\ update_succeeded = FALSE
    /\ q = <<>>
    /\ child = "none"
    /\ expired = FALSE
    /\ interrupted = FALSE
    /\ killed = FALSE
    /\ waited = 0
    /\ emitted = 0
    /\ finished_seen = FALSE
    /\ test_expired = FALSE
    /\ posts = [last |-> NoPost, committed |-> <<>>]
    /\ spawned = 0
    /\ returned = "none"

\* run_games is called with a task
InitRunGames ==
    /\ task \in Tasks
    /\ engines = FitEngines(task)
    /\ pc = "run_games"
    /\ InitLocals

\* run_games is not called
InitIdle ==
    /\ task = CHOOSE t \in Tasks : TRUE
    /\ engines = FitEngines(task)
    /\ pc = "none"
    /\ InitLocals

\* establish_validated_net is not called
NetNotCalled ==
    /\ npc = "none"
    /\ nargs = [net |-> 1, global_cache |-> ""]
    /\ dest = Absent
    /\ content = <<>>
    /\ net_attempt = 0
    /\ nerror = "none"
    /\ sleeps = <<>>
    /\ gets = 0
    /\ cache_reads = 0
    /\ dest_writes = 0

\* send_datagen_result is not called
DatagenNotCalled ==
    /\ dpc = "none"
    /\ dattempt = 0
    /\ dreplies = <<>>

\* the exception classes of the worker, and one that is not of the worker
WorkerClasses == {"WorkerException", "FatalException", "RunException"}

Classes == WorkerClasses \cup {"OSError"}

Messages == {"m1", "m2"}

\* an exception object: its class, its message, and which object it is (0 for
\* no object, 1 for the one handed in as e, 2 and up for those built since)
NoException == [class |-> "None", msg |-> "", object |-> 0]

Exceptions ==
    {NoException} \cup [class : Classes, msg : Messages, object : {1}]

\* no exception is being constructed
NoWrap ==
    /\ wrap_args = [cls |-> "WorkerException", msg |-> "", e |-> NoException]
    /\ wrapped = <<>>

Init ==
    /\ InitRunGames
    /\ InitCache
    /\ NetNotCalled
    /\ DatagenNotCalled
    /\ NoWrap
    /\ BenchNotCalled
    /\ MoreNotCalled

(* -------------------------- verify_signature --------------------------- *)

\* the loop over results: bench_nps += nps, which fails on the None of a
\* child that found no bench line, then the test of int(sig)
RECURSIVE verify_loop(_, _, _)
verify_loop(results, signature, bench_nps) ==
    IF results = <<>>
    THEN [raises |-> "none", bench_nps |-> bench_nps]
    ELSE LET r == Head(results)
         IN  IF ~r.printed
             THEN [raises |-> "TypeError", bench_nps |-> bench_nps]
             ELSE IF r.sig # signature
                  THEN [raises |-> "RunException", bench_nps |-> bench_nps + r.nps]
                  ELSE verify_loop(Tail(results), signature, bench_nps + r.nps)

\* a verify_signature that looks at the first result only
verify_signature_FirstOnly(results, signature, active_cores) ==
    LET v == verify_loop(SubSeq(results, 1, 1), signature, 0)
    IN  IF v.raises = "none"
        THEN [raises |-> "none", sum |-> v.bench_nps, cores |-> 1]
        ELSE [raises |-> v.raises, sum |-> 0, cores |-> 0]

\* verify_signature once results holds what the children put, in the order
\* they put it: the exception it raises, or bench_nps / active_cores as the
\* fraction sum / cores
verify_signature(results, signature, active_cores) ==
    LET v == verify_loop(results, signature, 0)
    IN  IF v.raises = "none"
        THEN [raises |-> "none", sum |-> v.bench_nps, cores |-> active_cores]
        ELSE [raises |-> v.raises, sum |-> 0, cores |-> 0]

\* child c of verify_signature ends its bench and puts what it found
run_single_bench(c) ==
    /\ bench_pc = "started"
    /\ c \in 1..bench_args.active_cores
    /\ bench_args.children[c].put
    /\ \A i \in 1..Len(queue) : queue[i] # c
    /\ queue' = Append(queue, c)
    /\ UNCHANGED <<bench_pc, bench_args, bench_result, verifications>>
    /\ UNCHANGED outside_bench

\* results = [queue.get() for _ in range(active_cores)] and what follows it
verify_signature_call ==
    /\ bench_pc = "started"
    /\ Len(queue) = bench_args.active_cores
    /\ bench_result' =
         verify_signature([i \in 1..Len(queue) |-> bench_args.children[queue[i]]],
                          bench_args.signature, bench_args.active_cores)
    /\ bench_pc' = IF bench_result'.raises = "none" THEN "returned" ELSE "raised"
    /\ UNCHANGED <<bench_args, queue, verifications>>
    /\ UNCHANGED outside_bench

\* base_nps < 61362 / (1 + math.tanh((worker_concurrency - 1) / 8)), at the
\* threshold too
SlowHost_AtThreshold(base_nps, worker_concurrency) ==
    base_nps.sum <= RequiredNps(worker_concurrency)

\* base_nps < 61362 / (1 + math.tanh((worker_concurrency - 1) / 8)), for a
\* base_nps measured on worker_concurrency cores
SlowHost(base_nps, worker_concurrency) ==
    base_nps.sum < RequiredNps(worker_concurrency)

\* the new engine is verified too unless it is the base engine with the
\* signature of the base engine
Distinct(e) == ~(e.base_signature = e.new_signature /\ e.new_engine = "base")

\* a verification of the base engine only
bench_failure_BaseOnly(e, cores) ==
    LET base == verify_signature(e.base, e.base_signature, cores)
    IN  IF base.raises = "TypeError" THEN "TypeError"
        ELSE IF base.raises = "RunException" THEN "RunException"
        ELSE IF SlowHost(base, cores) THEN "FatalException"
        ELSE "none"

\* the exception that leaves run_games while it verifies the engines e and
\* tests the speed of the host, "none" when the engines pass
bench_failure(e, cores) ==
    LET base == verify_signature(e.base, e.base_signature, cores)
        new == verify_signature(e.new, e.new_signature, cores)
        run_errors ==
            (IF base.raises = "RunException" THEN 1 ELSE 0)
            + (IF Distinct(e) /\ new.raises = "RunException" THEN 1 ELSE 0)
    IN  IF base.raises = "TypeError" THEN "TypeError"
        ELSE IF Distinct(e) /\ new.raises = "TypeError" THEN "TypeError"
        ELSE IF run_errors > 0 THEN "RunException"
        ELSE IF SlowHost(base, cores) THEN "FatalException"
        ELSE "none"

\* the engines run_games calls verify_signature on, in order: the base
\* engine, then the new engine if it is distinct and the call for the base
\* engine returned or raised RunException
verified(e, cores) ==
    LET base == verify_signature(e.base, e.base_signature, cores)
    IN  IF base.raises \in {"none", "RunException"} /\ Distinct(e)
        THEN <<"base", "new">>
        ELSE <<"base">>

(* ---------------------------- run_games -------------------------------- *)

\* send_api_post_request(remote + api, result) and the reply it got
Sent(api, reply) ==
    LET post == [api |-> api, stats |-> stats, spsa |-> spsa,
                 games |-> num_games_finished, updated |-> num_games_updated,
                 batch_size |-> batch_size, games_to_play |-> games_to_play,
                 child |-> spawned, reply |-> reply]
    IN  [last |-> post,
         committed |-> IF api = "update_task" /\ reply = "alive"
                       THEN Append(posts.committed, post)
                       ELSE posts.committed]

supervisor_vars ==
    <<saved_stats, fastchess_WLD_results, fastchess_ptnml_results,
      num_games_updated, num_games_finished, attempt, update_succeeded,
      finished_seen, test_expired, returned>>

child_vars == <<q, child, expired, interrupted, killed, waited, emitted, spawned>>

loop_vars == <<games_remaining, batch_size, games_to_play>>

\* input_stats, the assertion on it, result and games_remaining
run_games_entry ==
    /\ pc = "run_games"
    /\ UNCHANGED helper_vars
    /\ stats' = task.stats
    /\ games_remaining' = task.num_games - TotalGames(task.stats)
    /\ IF /\ 2 * SumSeq(task.stats.pentanomial) = TotalGames(task.stats)
          /\ games_remaining' > 0
          /\ games_remaining' % 2 = 0
       THEN pc' = "verify_signature" /\ raised' = "none"
       ELSE pc' = "failed" /\ raised' = "AssertionError"
    /\ UNCHANGED <<task, spsa, batch_size, games_to_play, task_alive, posts>>
    /\ UNCHANGED <<supervisor_vars, child_vars>>

\* the signatures of the engines are verified and the speed of the host is
\* tested, on games_concurrency * threads cores
run_games_verify ==
    /\ pc = "verify_signature"
    /\ UNCHANGED <<cache_vars, net_vars, datagen_vars, exception_vars, more_vars>>
    /\ UNCHANGED <<engines, bench_pc, bench_args, queue, bench_result>>
    /\ verifications' = verified(engines, task.games_concurrency)
    /\ raised' = bench_failure(engines, task.games_concurrency)
    /\ pc' = IF raised' = "none" THEN "run_loop" ELSE "failed"
    /\ UNCHANGED <<task, stats, spsa, loop_vars, task_alive, posts>>
    /\ UNCHANGED <<supervisor_vars, child_vars>>

\* batch_size as the loop body computes it
BatchSize ==
    IF task.sprt_batch > 0
    THEN 2 * task.sprt_batch
    ELSE task.games_concurrency * 4 * Max(1, task.interval)

GamesToPlay ==
    IF task.spsa
    THEN Min(task.games_concurrency * 4 * Max(1, task.interval), games_remaining)
    ELSE games_remaining

\* while games_remaining > 0: ... up to the call of launch_fastchess
run_games_loop ==
    /\ pc = "run_loop"
    /\ UNCHANGED helper_vars
    /\ IF games_remaining > 0
       THEN /\ batch_size' = BatchSize
            /\ games_to_play' = GamesToPlay
            /\ IF /\ task.sprt_batch > 0 => GamesToPlay % BatchSize = 0
                  /\ BatchSize % 2 = 0
                  /\ GamesToPlay % 2 = 0
               THEN pc' = "launch" /\ raised' = "none"
               ELSE pc' = "failed" /\ raised' = "AssertionError"
       ELSE /\ pc' = "done"
            /\ UNCHANGED <<batch_size, games_to_play, raised>>
    /\ UNCHANGED <<task, stats, spsa, games_remaining, task_alive, posts>>
    /\ UNCHANGED <<supervisor_vars, child_vars>>

\* the loop without "if not task_alive: break"
run_games_after_NoBreak ==
    /\ pc = "launched"
    /\ UNCHANGED helper_vars
    /\ IF raised # "none"
       THEN /\ pc' = "failed"
            /\ UNCHANGED games_remaining
       ELSE /\ games_remaining' = games_remaining - games_to_play
            /\ pc' = "run_loop"
    /\ UNCHANGED <<task, stats, spsa, batch_size, games_to_play, task_alive,
                   raised, posts>>
    /\ UNCHANGED <<supervisor_vars, child_vars>>

\* the statements after launch_fastchess returns, or its exception leaving run_games
run_games_after ==
    /\ pc = "launched"
    /\ UNCHANGED helper_vars
    /\ IF raised # "none"
       THEN /\ pc' = "failed"
            /\ UNCHANGED games_remaining
       ELSE /\ games_remaining' = games_remaining - games_to_play
            /\ pc' = IF task_alive THEN "run_loop" ELSE "done"
    /\ UNCHANGED <<task, stats, spsa, batch_size, games_to_play, task_alive,
                   raised, posts>>
    /\ UNCHANGED <<supervisor_vars, child_vars>>

(* -------------------------- launch_fastchess --------------------------- *)

\* with subprocess.Popen(cmd, ...) as p, then the first statements of
\* parse_fastchess_output up to num_games_updated = 0
Popen ==
    \E started \in BOOLEAN :
        IF started
        THEN /\ pc' = "test"
             /\ child' = "running"
             /\ spawned' = spawned + 1
             /\ q' = <<>>
             /\ expired' = FALSE
             /\ interrupted' = FALSE
             /\ killed' = FALSE
             /\ waited' = 0
             /\ saved_stats' = stats
             /\ fastchess_WLD_results' = None
             /\ fastchess_ptnml_results' = None
             /\ num_games_updated' = 0
             /\ num_games_finished' = 0
             /\ attempt' = 0
             /\ update_succeeded' = FALSE
             /\ finished_seen' = FALSE
             /\ test_expired' = FALSE
             /\ returned' = "none"
             /\ UNCHANGED <<raised, emitted>>
        ELSE /\ pc' = "launched"
             /\ raised' = "Unable to start fastchess"
             /\ UNCHANGED <<supervisor_vars, child_vars>>

\* a launch that asks the coordinator for nothing
launch_fastchess_NoRequest ==
    /\ pc = "launch"
    /\ UNCHANGED helper_vars
    /\ Popen
    /\ task_alive' = TRUE
    /\ UNCHANGED <<spsa, posts>>
    /\ UNCHANGED <<task, stats, loop_vars>>

\* launch_fastchess up to the spawn: the request_spsa round trip when tuning
launch_fastchess ==
    /\ pc = "launch"
    /\ UNCHANGED helper_vars
    /\ IF task.spsa
       THEN \E req \in Replies :
              /\ posts' = Sent("request_spsa", req)
              /\ CASE req = "alive" ->
                        /\ spsa' = <<games_to_play, 0, 0, 0>>
                        /\ task_alive' = TRUE
                        /\ Popen
                   [] req = "not_alive" ->
                        /\ pc' = "launched"
                        /\ task_alive' = FALSE
                        /\ UNCHANGED <<spsa, raised, supervisor_vars, child_vars>>
                   [] OTHER ->
                        /\ pc' = "launched"
                        /\ raised' = CASE req = "error" -> "WorkerException"
                                       [] req = "no_task_alive" -> "KeyError"
                                       [] req = "fatal" -> "FatalException"
                                       [] OTHER -> "Exception"
                        /\ UNCHANGED <<spsa, task_alive, supervisor_vars, child_vars>>
       ELSE /\ Popen
            /\ task_alive' = TRUE
            /\ UNCHANGED <<spsa, posts>>
    /\ UNCHANGED <<task, stats, loop_vars>>

\* a finally clause in which an exception of send_sigint leaves launch_fastchess
send_sigint_ExceptionSkipsWait ==
    /\ pc = "finally"
    /\ UNCHANGED helper_vars
    /\ \E sent \in BOOLEAN :
         /\ interrupted' = sent
         /\ pc' = IF sent THEN "wait" ELSE "launched"
    /\ saved_stats' = ZeroStats
    /\ fastchess_WLD_results' = None
    /\ fastchess_ptnml_results' = None
    /\ num_games_updated' = 0
    /\ num_games_finished' = 0
    /\ attempt' = 0
    /\ update_succeeded' = FALSE
    /\ q' = <<>>
    /\ expired' = FALSE
    /\ UNCHANGED <<task, stats, spsa, loop_vars, task_alive, raised, posts,
                   finished_seen, test_expired, returned, child, killed,
                   waited, emitted, spawned>>

\* the finally clause: send_sigint(p), whose exception is only printed; the
\* frame of parse_fastchess_output is gone by now, and its locals with it
send_sigint ==
    /\ pc = "finally"
    /\ UNCHANGED helper_vars
    /\ \E sent \in BOOLEAN : interrupted' = sent
    /\ pc' = "wait"
    /\ saved_stats' = ZeroStats
    /\ fastchess_WLD_results' = None
    /\ fastchess_ptnml_results' = None
    /\ num_games_updated' = 0
    /\ num_games_finished' = 0
    /\ attempt' = 0
    /\ update_succeeded' = FALSE
    /\ q' = <<>>
    /\ expired' = FALSE
    /\ UNCHANGED <<task, stats, spsa, loop_vars, task_alive, raised, posts,
                   finished_seen, test_expired, returned, child, killed,
                   waited, emitted, spawned>>

\* seconds the child takes to exit once the wait has begun: none, the whole
\* timeout, or longer than the timeout
ExitDelays == {0, FASTCHESS_KILL_TIMEOUT, FASTCHESS_KILL_TIMEOUT + 1}

\* p.wait(timeout=FASTCHESS_KILL_TIMEOUT), kill_process(p) on TimeoutExpired,
\* the end of the with block, and the return of task_alive
wait ==
    /\ pc = "wait"
    /\ UNCHANGED helper_vars
    /\ \E delay \in ExitDelays :
         /\ child = "exited" => delay = 0
         /\ waited' = Min(delay, FASTCHESS_KILL_TIMEOUT)
         /\ killed' = (delay > FASTCHESS_KILL_TIMEOUT)
    /\ child' = "exited"
    /\ pc' = "launched"
    /\ raised' = IF returned \in {"True", "False"} THEN "none" ELSE returned
    /\ task_alive' = IF returned \in {"True", "False"} THEN returned = "True"
                     ELSE task_alive
    /\ UNCHANGED <<task, stats, spsa, loop_vars, posts, supervisor_vars,
                   q, expired, interrupted, emitted, spawned>>

(* ----------------------- parse_fastchess_output ------------------------ *)

run_vars == <<task, loop_vars, task_alive, raised>>

\* an exception leaves parse_fastchess_output
Raise(e) ==
    /\ returned' = e
    /\ pc' = "finally"

\* a value is returned by parse_fastchess_output
Return(v) ==
    /\ returned' = v
    /\ pc' = "finally"

\* a while loop without its else clause: falls through to return True
LoopElse_ReturnsTrue == Return("True")

\* the else clause of the while loop
LoopElse == Raise("past end time")

\* while datetime.now(timezone.utc) < end_time: ... else: raise
loop_test ==
    /\ pc = "test"
    /\ UNCHANGED helper_vars
    /\ test_expired' = expired
    /\ IF expired
       THEN LoopElse
       ELSE pc' = "get" /\ UNCHANGED returned
    /\ UNCHANGED <<run_vars, stats, spsa, posts, child_vars, saved_stats,
                   fastchess_WLD_results, fastchess_ptnml_results,
                   num_games_updated, num_games_finished, attempt,
                   update_succeeded, finished_seen>>

\* the block added to the statistics as they stand
BlockStats_Running(s, wld, ptnml) ==
    [s EXCEPT !.pentanomial = [i \in 1..5 |-> ptnml[i] + s.pentanomial[i]],
              !.wins = wld[2] + s.wins,
              !.losses = wld[3] + s.losses,
              !.draws = wld[4] + s.draws]

\* result["stats"] after one complete block: the saved baseline plus the block
BlockStats(s, wld, ptnml) ==
    [s EXCEPT !.pentanomial = [i \in 1..5 |-> ptnml[i] + saved_stats.pentanomial[i]],
              !.wins = wld[2] + saved_stats.wins,
              !.losses = wld[3] + saved_stats.losses,
              !.draws = wld[4] + saved_stats.draws]

\* the assertions without the one on the summed statistics
BlockAsserts_NoStatsCheck(s, wld, ptnml) ==
    /\ wld[1] = 2 * SumSeq(ptnml)
    /\ wld[1] <= num_games_updated + batch_size
    /\ wld[1] <= games_to_play

\* the assertions without the one against games_to_play
BlockAsserts_NoGamesToPlayCheck(s, wld, ptnml) ==
    /\ 2 * SumSeq(s.pentanomial) = s.wins + s.losses + s.draws
    /\ wld[1] = 2 * SumSeq(ptnml)
    /\ wld[1] <= num_games_updated + batch_size

\* the four assertions on a complete block
BlockAsserts(s, wld, ptnml) ==
    /\ 2 * SumSeq(s.pentanomial) = s.wins + s.losses + s.draws
    /\ wld[1] = 2 * SumSeq(ptnml)
    /\ wld[1] <= num_games_updated + batch_size
    /\ wld[1] <= games_to_play

\* an update_task request after every block
AtBoundary_EveryBlock(games) == TRUE

\* Send an update_task request after a batch is full or if we have played all games.
AtBoundary(games) ==
    \/ games = num_games_updated + batch_size
    \/ games = games_to_play

\* a "Finished match" line is never taken as unclean
FinishedUncleanly_Never(line) == FALSE

\* if "Finished match" in line: if num_games_updated == games_to_play: ... else: raise
FinishedUncleanly(line) ==
    line.kind = "finished" /\ num_games_updated # games_to_play

\* a parser whose captures last for one line only
parse_line_CapturesLapse(line) ==
    LET counted == [stats EXCEPT
                      !.crashes = @ + (IF line.kind = "disconnects" THEN 1 ELSE 0),
                      !.time_losses = @ + (IF line.kind = "on_time" THEN 1 ELSE 0)]
        wld == IF line.kind = "wld" THEN line.v ELSE None
        ptnml == IF line.kind = "ptnml" THEN line.v ELSE None
        block == BlockStats(counted, wld, ptnml)
    IN  CASE FinishedUncleanly(line) ->
               /\ Raise("Finished match uncleanly")
               /\ UNCHANGED <<stats, spsa, fastchess_WLD_results,
                              fastchess_ptnml_results, num_games_finished,
                              attempt, update_succeeded, finished_seen>>
          [] line.kind \in {"no_option", "invalid_value"} ->
               /\ Raise("RunException")
               /\ UNCHANGED <<stats, spsa, fastchess_WLD_results,
                              fastchess_ptnml_results, num_games_finished,
                              attempt, update_succeeded, finished_seen>>
          [] line.kind = "bad_points" ->
               /\ Raise("Failed to parse WLD line")
               /\ UNCHANGED <<stats, spsa, fastchess_WLD_results,
                              fastchess_ptnml_results, num_games_finished,
                              attempt, update_succeeded, finished_seen>>
          [] OTHER ->
               /\ finished_seen' = (finished_seen \/ line.kind = "finished")
               /\ IF wld # None /\ ptnml # None
                  THEN /\ stats' = block
                       /\ spsa' = IF task.spsa
                                  THEN <<spsa[1], wld[2], wld[3], wld[4]>>
                                  ELSE spsa
                       /\ num_games_finished' = wld[1]
                       /\ IF BlockAsserts(block, wld, ptnml)
                          THEN /\ fastchess_WLD_results' = None
                               /\ fastchess_ptnml_results' = None
                               /\ IF AtBoundary(wld[1])
                                  THEN /\ pc' = "post"
                                       /\ attempt' = 0
                                       /\ update_succeeded' = FALSE
                                  ELSE /\ pc' = "test"
                                       /\ UNCHANGED <<attempt, update_succeeded>>
                               /\ UNCHANGED returned
                          ELSE /\ fastchess_WLD_results' = wld
                               /\ fastchess_ptnml_results' = ptnml
                               /\ Raise("AssertionError")
                               /\ UNCHANGED <<attempt, update_succeeded>>
                  ELSE /\ stats' = counted
                       /\ fastchess_WLD_results' = wld
                       /\ fastchess_ptnml_results' = ptnml
                       /\ pc' = "test"
                       /\ UNCHANGED <<spsa, num_games_finished, attempt,
                                      update_succeeded, returned>>

\* the body of the loop for one line, up to the retry loop
parse_line(line) ==
    LET counted == [stats EXCEPT
                      !.crashes = @ + (IF line.kind = "disconnects" THEN 1 ELSE 0),
                      !.time_losses = @ + (IF line.kind = "on_time" THEN 1 ELSE 0)]
        wld == IF line.kind = "wld" THEN line.v ELSE fastchess_WLD_results
        ptnml == IF line.kind = "ptnml" THEN line.v ELSE fastchess_ptnml_results
        block == BlockStats(counted, wld, ptnml)
    IN  CASE FinishedUncleanly(line) ->
               /\ Raise("Finished match uncleanly")
               /\ UNCHANGED <<stats, spsa, fastchess_WLD_results,
                              fastchess_ptnml_results, num_games_finished,
                              attempt, update_succeeded, finished_seen>>
          [] line.kind \in {"no_option", "invalid_value"} ->
               /\ Raise("RunException")
               /\ UNCHANGED <<stats, spsa, fastchess_WLD_results,
                              fastchess_ptnml_results, num_games_finished,
                              attempt, update_succeeded, finished_seen>>
          [] line.kind = "bad_points" ->
               /\ Raise("Failed to parse WLD line")
               /\ UNCHANGED <<stats, spsa, fastchess_WLD_results,
                              fastchess_ptnml_results, num_games_finished,
                              attempt, update_succeeded, finished_seen>>
          [] OTHER ->
               /\ finished_seen' = (finished_seen \/ line.kind = "finished")
               /\ IF wld # None /\ ptnml # None
                  THEN /\ stats' = block
                       /\ spsa' = IF task.spsa
                                  THEN <<spsa[1], wld[2], wld[3], wld[4]>>
                                  ELSE spsa
                       /\ num_games_finished' = wld[1]
                       /\ IF BlockAsserts(block, wld, ptnml)
                          THEN /\ fastchess_WLD_results' = None
                               /\ fastchess_ptnml_results' = None
                               /\ IF AtBoundary(wld[1])
                                  THEN /\ pc' = "post"
                                       /\ attempt' = 0
                                       /\ update_succeeded' = FALSE
                                  ELSE /\ pc' = "test"
                                       /\ UNCHANGED <<attempt, update_succeeded>>
                               /\ UNCHANGED returned
                          ELSE /\ fastchess_WLD_results' = wld
                               /\ fastchess_ptnml_results' = ptnml
                               /\ Raise("AssertionError")
                               /\ UNCHANGED <<attempt, update_succeeded>>
                  ELSE /\ stats' = counted
                       /\ fastchess_WLD_results' = wld
                       /\ fastchess_ptnml_results' = ptnml
                       /\ pc' = "test"
                       /\ UNCHANGED <<spsa, num_games_finished, attempt,
                                      update_succeeded, returned>>

\* line = q.get_nowait().strip() and the handling of the line; Empty leads to p.poll()
get_nowait ==
    /\ pc = "get"
    /\ UNCHANGED helper_vars
    /\ IF q # <<>>
       THEN /\ q' = Tail(q)
            /\ parse_line(Head(q))
       ELSE /\ pc' = "poll"
            /\ UNCHANGED <<q, stats, spsa, fastchess_WLD_results,
                           fastchess_ptnml_results, num_games_finished, attempt,
                           update_succeeded, finished_seen, returned>>
    /\ UNCHANGED <<run_vars, posts, saved_stats, num_games_updated, test_expired,
                   child, expired, interrupted, killed, waited, emitted, spawned>>

\* except Empty: if p.poll() is not None: break; time.sleep(0.1); continue
poll ==
    /\ pc = "poll"
    /\ UNCHANGED helper_vars
    /\ IF child = "exited"
       THEN Return("True")
       ELSE pc' = "test" /\ UNCHANGED returned
    /\ UNCHANGED <<run_vars, stats, spsa, posts, child_vars, saved_stats,
                   fastchess_WLD_results, fastchess_ptnml_results,
                   num_games_updated, num_games_finished, attempt,
                   update_succeeded, finished_seen, test_expired>>

\* a FatalException handled like any other exception of the POST
Iteration_FatalRetries(response) ==
    CASE response = "error" -> "break"
      [] response \in {"exception", "fatal"} -> "retry"
      [] response = "no_task_alive" -> "KeyError"
      [] response = "not_alive" -> "False"
      [] OTHER -> "succeeded"

\* a reply with an error field taken as a successful update
Iteration_ErrorSucceeds(response) ==
    CASE response = "exception" -> "retry"
      [] response = "fatal" -> "FatalException"
      [] response = "no_task_alive" -> "KeyError"
      [] response = "not_alive" -> "False"
      [] OTHER -> "succeeded"

\* how one iteration of the retry loop ends, by what send_api_post_request
\* produced: "break" leaves the loop, "retry" sleeps and starts the next
\* iteration, anything else leaves parse_fastchess_output
Iteration(response) ==
    CASE response = "error" -> "break"
      [] response = "exception" -> "retry"
      [] response = "fatal" -> "FatalException"
      [] response = "no_task_alive" -> "KeyError"
      [] response = "not_alive" -> "False"
      [] OTHER -> "succeeded"

\* one iteration of for _ in range(5), and what follows the loop when it ends
update_task ==
    /\ pc = "post"
    /\ UNCHANGED helper_vars
    /\ \E response \in Replies :
         LET end == Iteration(response)
         IN  /\ posts' = Sent("update_task", response)
             /\ attempt' = attempt + 1
             /\ update_succeeded' = (end = "succeeded")
             /\ num_games_updated' = IF end = "succeeded" THEN num_games_finished
                                     ELSE num_games_updated
             /\ CASE end = "succeeded" -> pc' = "test" /\ UNCHANGED returned
                  [] end = "retry" /\ attempt + 1 < UpdateAttempts ->
                       pc' = "post" /\ UNCHANGED returned
                  [] end \in {"retry", "break"} ->
                       Raise("Too many failed update attempts")
                  [] end = "False" -> Return("False")
                  [] OTHER -> Raise(end)
    /\ UNCHANGED <<run_vars, stats, spsa, child_vars, saved_stats,
                   fastchess_WLD_results, fastchess_ptnml_results,
                   num_games_finished, finished_seen, test_expired>>

(* ------------------- the child, the readers, the clock ----------------- *)

\* the child prints a line and enqueue_output puts it on the queue. The
\* supervisor looks at the queue only in get_nowait and takes one line each
\* time, so a line that arrives at any other moment, or behind another line,
\* is put there when the supervisor next looks at an empty queue
enqueue_output ==
    /\ pc = "get"
    /\ UNCHANGED helper_vars
    /\ child = "running"
    /\ emitted < MaxLines
    /\ q = <<>>
    /\ \E line \in Lines : q' = Append(q, line)
    /\ emitted' = emitted + 1
    /\ UNCHANGED <<pc, run_vars, stats, spsa, posts, supervisor_vars,
                   child, expired, interrupted, killed, waited, spawned>>

\* the child exits; the supervisor asks p.poll() only after an Empty
child_exits ==
    /\ pc = "poll"
    /\ UNCHANGED helper_vars
    /\ child = "running"
    /\ child' = "exited"
    /\ UNCHANGED <<pc, run_vars, stats, spsa, posts, supervisor_vars,
                   q, expired, interrupted, killed, waited, emitted, spawned>>

\* the wall clock reaches end_time: while the supervisor is about to read the
\* clock in the while condition, during the POSTs and sleeps of the retry
\* loop, or between the while condition and p.poll()
deadline_passes ==
    /\ pc \in {"test", "post", "poll"}
    /\ UNCHANGED helper_vars
    /\ ~expired
    /\ expired' = TRUE
    /\ UNCHANGED <<pc, run_vars, stats, spsa, posts, supervisor_vars,
                   q, child, interrupted, killed, waited, emitted, spawned>>

\* how a pair of games can end, and the pentanomial bucket it falls in: a win
\* and a loss, two draws, a win and a draw
PairOutcomes ==
    { [wld |-> <<1, 1, 0>>, bucket |-> 3],
      [wld |-> <<0, 0, 2>>, bucket |-> 3],
      [wld |-> <<1, 0, 1>>, bucket |-> 4] }

\* the "Games: ..." and "Ptnml(0-2): ..." lines of the results block printed
\* after the pairs in outcomes, which count all the pairs played so far
RECURSIVE BlockLines(_)
BlockLines(outcomes) ==
    IF outcomes = <<>>
    THEN << [kind |-> "wld", v |-> <<0, 0, 0, 0>>],
            [kind |-> "ptnml", v |-> <<0, 0, 0, 0, 0>>] >>
    ELSE LET before == BlockLines(SubSeq(outcomes, 1, Len(outcomes) - 1))
             pair == outcomes[Len(outcomes)]
         IN  << [kind |-> "wld",
                 v |-> <<before[1].v[1] + 2,
                         before[1].v[2] + pair.wld[1],
                         before[1].v[3] + pair.wld[2],
                         before[1].v[4] + pair.wld[3]>>],
                [kind |-> "ptnml",
                 v |-> [i \in 1..5 |->
                          before[2].v[i] + (IF i = pair.bucket THEN 1 ELSE 0)]] >>

\* the output of a child that plays the pairs in outcomes: a results block
\* after every pair, then "Finished match"
RECURSIVE ScriptOf(_, _)
ScriptOf(outcomes, k) ==
    IF k > Len(outcomes)
    THEN << [kind |-> "finished", v |-> None] >>
    ELSE BlockLines(SubSeq(outcomes, 1, k)) \o ScriptOf(outcomes, k + 1)

\* what a child can print that plays games games without a fault
Scripts(games) ==
    { ScriptOf(outcomes, 1) : outcomes \in [1..(games \div 2) -> PairOutcomes] }

\* the child prints the next line of its script
scripted_output ==
    /\ pc = "get"
    /\ child = "running"
    /\ q = <<>>
    /\ script # <<>>
    /\ q' = <<Head(script)>>
    /\ script' = Tail(script)
    /\ emitted' = emitted + 1
    /\ UNCHANGED <<pc, run_vars, stats, spsa, posts, supervisor_vars,
                   child, expired, interrupted, killed, waited, spawned>>
    /\ UNCHANGED outside_script

\* the child exits when it has printed "Finished match"
scripted_exit == child_exits /\ script = <<>>

\* the child starts
spawn == launch_fastchess /\ spawned' = spawned + 1

\* the coordinator answers every update_task with task_alive true
update_task_alive == update_task /\ posts'.last.reply = "alive"

\* the child writes a line to stdout
write_stdout ==
    /\ rpc \in {"get", "poll"}
    /\ reader_child = "running"
    /\ out_count + err_count < MaxLines
    /\ out_count' = out_count + 1
    /\ stdout_pipe' = Append(stdout_pipe, [stream |-> "stdout", n |-> out_count'])
    /\ UNCHANGED <<rpc, reader_child, err_count, stderr_pipe, fifo, taken>>
    /\ UNCHANGED outside_reader

\* the child writes a line to stderr
write_stderr ==
    /\ rpc \in {"get", "poll"}
    /\ reader_child = "running"
    /\ out_count + err_count < MaxLines
    /\ err_count' = err_count + 1
    /\ stderr_pipe' = Append(stderr_pipe, [stream |-> "stderr", n |-> err_count'])
    /\ UNCHANGED <<rpc, reader_child, out_count, stdout_pipe, fifo, taken>>
    /\ UNCHANGED outside_reader

\* the child exits; what it wrote stays in the pipes
reader_child_exits ==
    /\ rpc \in {"get", "poll"}
    /\ reader_child = "running"
    /\ reader_child' = "exited"
    /\ UNCHANGED <<rpc, out_count, err_count, stdout_pipe, stderr_pipe, fifo, taken>>
    /\ UNCHANGED outside_reader

\* t_output: enqueue_output(p.stdout, q) reads a line and puts it on the queue
t_output ==
    /\ rpc \in {"get", "poll"}
    /\ stdout_pipe # <<>>
    /\ fifo' = Append(fifo, Head(stdout_pipe))
    /\ stdout_pipe' = Tail(stdout_pipe)
    /\ UNCHANGED <<rpc, reader_child, out_count, err_count, stderr_pipe, taken>>
    /\ UNCHANGED outside_reader

\* t_error: enqueue_output(p.stderr, q) reads a line and puts it on the queue
t_error ==
    /\ rpc \in {"get", "poll"}
    /\ stderr_pipe # <<>>
    /\ fifo' = Append(fifo, Head(stderr_pipe))
    /\ stderr_pipe' = Tail(stderr_pipe)
    /\ UNCHANGED <<rpc, reader_child, out_count, err_count, stdout_pipe, taken>>
    /\ UNCHANGED outside_reader

\* line = q.get_nowait(), for a line that is parsed without leaving the loop;
\* Empty leads to p.poll()
reader_get_nowait ==
    /\ rpc = "get"
    /\ IF fifo # <<>>
       THEN /\ taken' = Append(taken, Head(fifo))
            /\ fifo' = Tail(fifo)
            /\ UNCHANGED rpc
       ELSE /\ rpc' = "poll"
            /\ UNCHANGED <<fifo, taken>>
    /\ UNCHANGED <<reader_child, out_count, err_count, stdout_pipe, stderr_pipe>>
    /\ UNCHANGED outside_reader

\* except Empty: if p.poll() is not None: break, and return True after the
\* loop; else time.sleep(0.1) and continue
reader_poll ==
    /\ rpc = "poll"
    /\ rpc' = IF reader_child = "exited" THEN "returned" ELSE "get"
    /\ UNCHANGED <<reader_child, out_count, err_count, stdout_pipe, stderr_pipe,
                   fifo, taken>>
    /\ UNCHANGED outside_reader

(* --------------------------- the global cache -------------------------- *)

\* (Path(cache) / name).read_bytes(), None on any exception
cache_read(cache, name) ==
    IF cache = "" THEN Absent
    ELSE IF cache_files[name] = 0 THEN Absent
    ELSE Bytes(temp[cache_files[name]])

\* a cache_write that writes the data straight into cache / name
cache_write_InPlace(w, cache, name, data) ==
    /\ wpc[w] = "idle"
    /\ UNCHANGED outside_cache
    /\ \E created \in BOOLEAN :
         /\ wargs' = [wargs EXCEPT ![w] = [cache |-> cache, name |-> name, data |-> data]]
         /\ followed' = [followed EXCEPT ![w] =
                           \E v \in Writers : /\ wpc[v] = "done"
                                              /\ linked[v]
                                              /\ wargs[v].name = name]
         /\ wpc' = [wpc EXCEPT ![w] = IF cache # "" /\ created THEN "write" ELSE "done"]
         /\ cache_files' = IF cache # "" /\ created /\ cache_files[name] = 0
                           THEN [cache_files EXCEPT ![name] = w]
                           ELSE cache_files
         /\ linked' = [linked EXCEPT ![w] = cache_files'[name] = w]
    /\ UNCHANGED <<temp, temp_names, seen, last_read>>

\* cache_write(cache, name, data) is called by w: return at once without a
\* cache, else create the temporary file in the cache directory, which may fail
cache_write(w, cache, name, data) ==
    /\ wpc[w] = "idle"
    /\ UNCHANGED outside_cache
    /\ \E created \in BOOLEAN :
         /\ wargs' = [wargs EXCEPT ![w] = [cache |-> cache, name |-> name, data |-> data]]
         /\ followed' = [followed EXCEPT ![w] =
                           \E v \in Writers : /\ wpc[v] = "done"
                                              /\ linked[v]
                                              /\ wargs[v].name = name]
         /\ wpc' = [wpc EXCEPT ![w] = IF cache # "" /\ created THEN "write" ELSE "done"]
         /\ temp_names' = [temp_names EXCEPT ![w] = cache # "" /\ created]
    /\ UNCHANGED <<cache_files, temp, linked, seen, last_read>>

\* some worker calls cache_write
cache_write_call(w) ==
    \E cache \in Caches, name \in Names, data \in Blobs :
        cache_write(w, cache, name, data)

\* temp_file.write(data) a byte at a time, then flush, fsync and close; any of
\* them may raise, and cache_write then returns leaving the temporary file
temp_file_write(w) ==
    /\ wpc[w] = "write"
    /\ UNCHANGED outside_cache
    /\ \/ /\ Len(temp[w]) < Len(wargs[w].data)
          /\ temp' = [temp EXCEPT ![w] = Append(@, wargs[w].data[Len(@) + 1])]
          /\ UNCHANGED wpc
       \/ /\ Len(temp[w]) = Len(wargs[w].data)
          /\ wpc' = [wpc EXCEPT ![w] = "link"]
          /\ UNCHANGED temp
       \/ /\ wpc' = [wpc EXCEPT ![w] = "done"]
          /\ UNCHANGED temp
    /\ UNCHANGED <<cache_files, temp_names, wargs, linked, followed, seen, last_read>>

\* a link that replaces the file that is there
os_link_Replaces(w) ==
    /\ wpc[w] = "link"
    /\ UNCHANGED outside_cache
    /\ \E ok \in BOOLEAN :
         IF ok
         THEN /\ cache_files' = [cache_files EXCEPT ![wargs[w].name] = w]
              /\ linked' = [linked EXCEPT ![w] = TRUE]
         ELSE UNCHANGED <<cache_files, linked>>
    /\ wpc' = [wpc EXCEPT ![w] = "remove"]
    /\ UNCHANGED <<temp, temp_names, wargs, followed, seen, last_read>>

\* os.link(temp_file.name, Path(cache) / name): atomic, OSError when the name
\* exists or for any other reason, and the OSError is passed over
os_link(w) ==
    /\ wpc[w] = "link"
    /\ UNCHANGED outside_cache
    /\ \E ok \in BOOLEAN :
         IF ok /\ cache_files[wargs[w].name] = 0
         THEN /\ cache_files' = [cache_files EXCEPT ![wargs[w].name] = w]
              /\ linked' = [linked EXCEPT ![w] = TRUE]
         ELSE UNCHANGED <<cache_files, linked>>
    /\ wpc' = [wpc EXCEPT ![w] = "remove"]
    /\ UNCHANGED <<temp, temp_names, wargs, followed, seen, last_read>>

\* os.remove(temp_file.name): the bytes stay with the linked name; when it
\* raises, cache_write returns as after any other exception
os_remove(w) ==
    /\ wpc[w] = "remove"
    /\ UNCHANGED outside_cache
    /\ wpc' = [wpc EXCEPT ![w] = "done"]
    /\ \E removed \in BOOLEAN :
         temp_names' = [temp_names EXCEPT ![w] = ~removed]
    /\ UNCHANGED <<cache_files, temp, wargs, linked, followed, seen, last_read>>

\* some worker calls cache_read
read_bytes ==
    /\ UNCHANGED outside_cache
    /\ \E cache \in Caches, name \in Names :
         LET result == cache_read(cache, name)
         IN  /\ last_read' = [cache |-> cache, name |-> name, result |-> result]
             /\ seen' = IF result.found /\ ~seen[name].found
                        THEN [seen EXCEPT ![name] = result]
                        ELSE seen
    /\ UNCHANGED <<cache_files, temp, temp_names, wpc, wargs, linked, followed>>

(* ---------------------- establish_validated_net ------------------------ *)

\* hashlib.sha256(content).hexdigest()[:12], as the digits a name carries
hexdigest(bytes) == SumSeq(bytes) \div 2

\* what requests_get(url).content can produce: the bytes the remote sends, or
\* an exception
Downloads ==
    { [raises |-> "none", bytes |-> b] : b \in Blobs }
    \cup { [raises |-> e, bytes |-> <<>>] : e \in {"WorkerException", "FatalException"} }

\* the writer that stands for the cache_write of download_net
NetWriter == MaxWriters

\* a validate_net that accepts any file
validate_net_Any(file, net) == file.found

\* validate_net(testing_dir, net) on the file as it is
validate_net(file, net) == file.found /\ hexdigest(file.bytes) = net

\* the call: nothing to do when the file exists and validates
establish_validated_net ==
    /\ npc = "call"
    /\ IF dest.found /\ validate_net(dest, nargs.net)
       THEN npc' = "returned"
       ELSE npc' = "try"
    /\ net_attempt' = 0
    /\ UNCHANGED <<nargs, dest, content, nerror, sleeps, gets, cache_reads, dest_writes>>
    /\ UNCHANGED <<outside_net, cache_vars>>

\* a download_net that asks the remote when the cached bytes do not validate
download_net_Refetch ==
    /\ npc = "try"
    /\ net_attempt' = net_attempt + 1
    /\ cache_reads' = cache_reads + 1
    /\ LET cached == cache_read(nargs.global_cache, nargs.net)
       IN  IF validate_net(cached, nargs.net)
           THEN /\ content' = cached.bytes
                /\ npc' = "write_bytes"
                /\ UNCHANGED <<gets, nerror>>
           ELSE /\ gets' = gets + 1
                /\ \E got \in Downloads :
                     IF got.raises # "none"
                     THEN /\ nerror' = got.raises
                          /\ npc' = "except"
                          /\ UNCHANGED content
                     ELSE /\ content' = got.bytes
                          /\ npc' = "write_bytes"
                          /\ UNCHANGED nerror
    /\ UNCHANGED <<nargs, dest, sleeps, dest_writes>>
    /\ UNCHANGED <<outside_net, cache_vars>>

\* attempt += 1 and download_net up to its cache_write
download_net ==
    /\ npc = "try"
    /\ net_attempt' = net_attempt + 1
    /\ cache_reads' = cache_reads + 1
    /\ LET cached == cache_read(nargs.global_cache, nargs.net)
       IN  IF cached.found
           THEN /\ content' = cached.bytes
                /\ npc' = "write_bytes"
                /\ UNCHANGED <<gets, nerror>>
           ELSE /\ gets' = gets + 1
                /\ \E got \in Downloads :
                     IF got.raises # "none"
                     THEN /\ nerror' = got.raises
                          /\ npc' = "except"
                          /\ UNCHANGED content
                     ELSE /\ content' = got.bytes
                          /\ npc' = IF hexdigest(got.bytes) = nargs.net
                                    THEN "cache_write" ELSE "write_bytes"
                          /\ UNCHANGED nerror
    /\ UNCHANGED <<nargs, dest, sleeps, dest_writes>>
    /\ UNCHANGED <<outside_net, cache_vars>>

\* cache_write(global_cache, net, content) is entered
download_net_cache_write ==
    /\ npc = "cache_write"
    /\ cache_write(NetWriter, nargs.global_cache, nargs.net, content)

\* (testing_dir / net).write_bytes(content) once cache_write has returned;
\* an OSError leaves establish_validated_net
write_bytes ==
    /\ \/ npc = "write_bytes"
       \/ npc = "cache_write" /\ wpc[NetWriter] = "done"
    /\ dest_writes' = dest_writes + 1
    /\ \E written \in BOOLEAN, opened \in BOOLEAN :
         IF written
         THEN /\ dest' = Bytes(content)
              /\ npc' = "validate"
              /\ UNCHANGED nerror
         ELSE /\ dest' = IF opened THEN Bytes(<<>>) ELSE dest
              /\ npc' = "raised"
              /\ nerror' = "OSError"
    /\ UNCHANGED <<nargs, content, net_attempt, sleeps, gets, cache_reads>>
    /\ UNCHANGED <<outside_net, cache_vars>>

\* if not validate_net(testing_dir, net): raise WorkerException(...), else break
net_validate ==
    /\ npc = "validate"
    /\ IF validate_net(dest, nargs.net)
       THEN npc' = "returned" /\ UNCHANGED nerror
       ELSE npc' = "except" /\ nerror' = "WorkerException"
    /\ UNCHANGED <<nargs, dest, content, net_attempt, sleeps, gets, cache_reads,
                   dest_writes>>
    /\ UNCHANGED <<outside_net, cache_vars>>

\* except FatalException: raise; except WorkerException: raise after too many
\* attempts, else sleep and try again
net_except ==
    /\ npc = "except"
    /\ IF nerror = "FatalException" \/ net_attempt > NetAttempts
       THEN /\ npc' = "raised"
            /\ UNCHANGED <<nerror, sleeps>>
       ELSE /\ sleeps' = Append(sleeps, UPDATE_RETRY_TIME * net_attempt)
            /\ nerror' = "none"
            /\ npc' = "try"
    /\ UNCHANGED <<nargs, dest, content, net_attempt, gets, cache_reads, dest_writes>>
    /\ UNCHANGED <<outside_net, cache_vars>>

(* ---------------------------- setup_engine ----------------------------- *)

\* ZipFile(io.BytesIO(blob)).extractall(): the blobs that begin with 1 stand
\* for the zip files that extract
unzip(bytes) == IF bytes # <<>> /\ Head(bytes) = 1 THEN "file_list" ELSE "BadZipFile"

\* how the two calls of establish_validated_net and the two copies can end
NetsOutcomes == {"none", "WorkerException", "FatalException", "OSError"}

\* how the Popen of make, the reading of its stderr and its return code can end
MakeOutcomes == {"none", "WorkerException", "OSError"}

\* tempfile.mkdtemp, cache_read(global_cache, sha + ".zip") and, when the
\* cache has no such blob, requests_get(item_url).content
setup_engine ==
    /\ epc = "call"
    /\ tmp_dir' = TRUE
    /\ LET cached == cache_read(eargs.global_cache, eargs.sha)
       IN  IF cached.found
           THEN /\ blob' = cached.bytes
                /\ blob_needs_write' = FALSE
                /\ epc' = "unzip"
                /\ UNCHANGED engine_raised
           ELSE \E got \in Downloads :
                    IF got.raises # "none"
                    THEN /\ engine_raised' = got.raises
                         /\ epc' = "finally"
                         /\ UNCHANGED <<blob, blob_needs_write>>
                    ELSE /\ blob' = got.bytes
                         /\ blob_needs_write' = TRUE
                         /\ epc' = "unzip"
                         /\ UNCHANGED engine_raised
    /\ UNCHANGED <<eargs, destination, make_runs>>
    /\ UNCHANGED <<outside_engine, cache_vars>>

\* file_list = unzip(blob, tmp_dir)
engine_unzip ==
    /\ epc = "unzip"
    /\ IF unzip(blob) = "BadZipFile"
       THEN /\ engine_raised' = "BadZipFile"
            /\ epc' = "finally"
       ELSE /\ epc' = IF blob_needs_write THEN "cache_write" ELSE "nets"
            /\ UNCHANGED engine_raised
    /\ UNCHANGED <<eargs, destination, tmp_dir, blob, blob_needs_write, make_runs>>
    /\ UNCHANGED <<outside_engine, cache_vars>>

\* a cache_write that does not look at blob_needs_write
engine_cache_write_Unconditional ==
    /\ epc \in {"cache_write", "nets"}
    /\ cache_write(NetWriter, eargs.global_cache, eargs.sha, blob)

\* if blob_needs_write: cache_write(global_cache, sha + ".zip", blob)
engine_cache_write ==
    /\ epc = "cache_write"
    /\ cache_write(NetWriter, eargs.global_cache, eargs.sha, blob)

\* the nets the sources name are established and copied, once cache_write
\* has returned
engine_nets ==
    /\ \/ epc = "nets"
       \/ epc = "cache_write" /\ wpc[NetWriter] = "done"
    /\ \E end \in NetsOutcomes :
         IF end = "none"
         THEN epc' = "exists" /\ UNCHANGED engine_raised
         ELSE epc' = "finally" /\ engine_raised' = end
    /\ UNCHANGED <<eargs, destination, tmp_dir, blob, blob_needs_write, make_runs>>
    /\ UNCHANGED <<outside_engine, cache_vars>>

\* if os.path.exists(destination): raise FatalException(...), else make is
\* started, and writes the destination when it succeeds
engine_make ==
    /\ epc = "exists"
    /\ epc' = "finally"
    /\ IF destination
       THEN /\ engine_raised' = "Another worker is running in the same directory!"
            /\ UNCHANGED <<destination, make_runs>>
       ELSE /\ make_runs' = make_runs + 1
            /\ \E end \in MakeOutcomes :
                 /\ engine_raised' = end
                 /\ destination' = (end = "none")
    /\ UNCHANGED <<eargs, tmp_dir, blob, blob_needs_write>>
    /\ UNCHANGED <<outside_engine, cache_vars>>

\* finally: shutil.rmtree(tmp_dir)
engine_finally ==
    /\ epc = "finally"
    /\ tmp_dir' = FALSE
    /\ epc' = IF engine_raised = "none" THEN "returned" ELSE "raised"
    /\ UNCHANGED <<eargs, destination, blob, blob_needs_write, make_runs,
                   engine_raised>>
    /\ UNCHANGED <<outside_engine, cache_vars>>

\* another worker in the same directory writes the destination
destination_appears ==
    /\ epc \in {"unzip", "cache_write", "nets", "exists"}
    /\ ~destination
    /\ destination' = TRUE
    /\ UNCHANGED <<epc, eargs, tmp_dir, blob, blob_needs_write, make_runs,
                   engine_raised>>
    /\ UNCHANGED <<outside_engine, cache_vars>>

(* ------------------------- send_datagen_result ------------------------- *)

\* one iteration of for _ in range(5) in send_datagen_result, and what follows
\* the loop when it ends
send_datagen_result ==
    /\ dpc = "post"
    /\ \E response \in Replies :
         LET end == Iteration(response)
         IN  /\ dreplies' = Append(dreplies, response)
             /\ dattempt' = dattempt + 1
             /\ dpc' = CASE end = "succeeded" -> "returned"
                         [] end = "retry" /\ dattempt + 1 < UpdateAttempts -> "post"
                         [] end \in {"retry", "break"} -> "Too many failed update attempts"
                         [] OTHER -> end
    /\ UNCHANGED outside_datagen

(* --------------------------- WorkerException --------------------------- *)

\* isinstance(e, WorkerException)
IsWorkerException(e) == e.class \in WorkerClasses

\* a __new__ that always builds an object of the class asked for
WorkerException_AlwaysNew(cls, msg, e, object) ==
    [class |-> cls, msg |-> msg, object |-> object]

\* WorkerException.__new__(cls, msg, e): e itself when e is an instance of
\* WorkerException, else a new object of class cls; object is the identity a
\* new object gets
WorkerException(cls, msg, e, object) ==
    IF e # NoException /\ IsWorkerException(e)
    THEN e
    ELSE [class |-> cls, msg |-> msg, object |-> object]

\* cls(msg, e=e) with the arguments of the call
construct ==
    /\ wrapped = <<>>
    /\ wrapped' = <<WorkerException(wrap_args.cls, wrap_args.msg, wrap_args.e, 2)>>
    /\ UNCHANGED wrap_args
    /\ UNCHANGED outside_exception

\* the object a call returned is handed as e to another call
construct_again ==
    /\ Len(wrapped) = 1
    /\ \E cls \in WorkerClasses, msg \in Messages :
         wrapped' = Append(wrapped, WorkerException(cls, msg, wrapped[1], 3))
    /\ UNCHANGED wrap_args
    /\ UNCHANGED outside_exception

(* ----------------------- the command of the match ---------------------- *)

\* cmd.index(token), 0 when the token is not in cmd
index(c, token) ==
    IF \E i \in 1..Len(c) : c[i] = token
    THEN CHOOSE i \in 1..Len(c) : c[i] = token /\ \A j \in 1..(i - 1) : c[j] # token
    ELSE 0

\* math.floor(x["value"] + random.uniform(0, 1)), value and roll in halves
StochasticRound(value, roll) == (value + roll) \div 2

\* the tokens of the parameters, one roll for each
OptionTokens(params, rolls) ==
    [i \in 1..Len(params) |->
        Option(params[i].name, StochasticRound(params[i].value, rolls[i]))]

\* a splice that leaves the sentinel behind the tokens
spliced_KeepsSentinel(c, params, rolls) ==
    LET idx == index(c, Sentinel)
    IN  SubSeq(c, 1, idx - 1) \o OptionTokens(params, rolls) \o SubSeq(c, idx, Len(c))

\* cmd[:idx] + [tokens of params] + cmd[idx + 1 :] for idx = cmd.index("_spsa_")
spliced(c, params, rolls) ==
    LET idx == index(c, Sentinel)
    IN  SubSeq(c, 1, idx - 1) \o OptionTokens(params, rolls)
        \o SubSeq(c, idx + 1, Len(c))

\* w_params and b_params: those of the reply with SPSA, none without
launch_params ==
    /\ cmd_pc = "launch"
    /\ w_params' = IF launch_args.spsa_tuning THEN launch_args.req.w_params ELSE <<>>
    /\ b_params' = IF launch_args.spsa_tuning THEN launch_args.req.b_params ELSE <<>>
    /\ cmd_pc' = "w_params"
    /\ UNCHANGED <<launch_args, cmd>>
    /\ UNCHANGED outside_command

\* the tokens of w_params take the place of the first sentinel
splice_w_params ==
    /\ cmd_pc = "w_params"
    /\ index(cmd, Sentinel) # 0
    /\ \E rolls \in [1..Len(w_params) -> Rolls] : cmd' = spliced(cmd, w_params, rolls)
    /\ cmd_pc' = "b_params"
    /\ UNCHANGED <<launch_args, w_params, b_params>>
    /\ UNCHANGED outside_command

\* the tokens of b_params take the place of the sentinel that is now the
\* first, and cmd is handed to subprocess.Popen
splice_b_params ==
    /\ cmd_pc = "b_params"
    /\ index(cmd, Sentinel) # 0
    /\ \E rolls \in [1..Len(b_params) -> Rolls] : cmd' = spliced(cmd, b_params, rolls)
    /\ cmd_pc' = "Popen"
    /\ UNCHANGED <<launch_args, w_params, b_params>>
    /\ UNCHANGED outside_command

(* -------------------------- run_datagen_games -------------------------- *)

\* int(x / 2) for an integer x
IntHalf(x) == IF x >= 0 THEN x \div 2 ELSE -((-x) \div 2)

\* result["stats"] as the end of parse_datagen_output writes it, from the
\* last wld and saved_stats
datagen_stats(saved, counts) ==
    LET wins == counts[1] + saved.wins
        losses == counts[2] + saved.losses
        draws == counts[3] + saved.draws
        winLossDiff == wins - losses
        abs == IF winLossDiff >= 0 THEN winLossDiff ELSE -winLossDiff
    IN  [saved EXCEPT
            !.wins = wins, !.losses = losses, !.draws = draws,
            !.pentanomial =
                [saved.pentanomial EXCEPT
                    ![2] = Max(-winLossDiff, 0),
                    ![3] = IntHalf((wins + draws + losses) - 2 * abs),
                    ![4] = Max(winLossDiff, 0)]]

run_datagen_locals == <<datagen_wld, lines_read, parsed, datagen_result>>

\* the datagen child creates the file it writes to
datagen_creates_file ==
    /\ gpc \in {"parse", "except", "finally"}
    /\ returncode = "None"
    /\ ~binpack_created
    /\ binpack_created' = TRUE
    /\ games_file' = TRUE
    /\ UNCHANGED <<gpc, returncode, run_datagen_locals, datagen_raised>>
    /\ UNCHANGED datagen_vars
    /\ UNCHANGED outside_run_datagen

\* the datagen child exits by itself
datagen_child_exits ==
    /\ gpc = "parse"
    /\ returncode = "None"
    /\ returncode' \in {"0", "1"}
    /\ UNCHANGED <<gpc, games_file, binpack_created, run_datagen_locals, datagen_raised>>
    /\ UNCHANGED datagen_vars
    /\ UNCHANGED outside_run_datagen

\* parse_datagen_output reads a line
datagen_line ==
    /\ gpc = "parse"
    /\ lines_read < MaxDatagenLines
    /\ lines_read' = lines_read + 1
    /\ \E line \in DatagenLines :
         CASE line.kind = "other" -> UNCHANGED <<gpc, datagen_wld, parsed>>
           [] line.kind = "finished games" ->
                datagen_wld' = line.wld /\ UNCHANGED <<gpc, parsed>>
           [] line.kind = "unparsable" ->
                /\ parsed' = "Failed to parse score line"
                /\ gpc' = "except"
                /\ UNCHANGED datagen_wld
    /\ UNCHANGED <<returncode, games_file, binpack_created, datagen_result, datagen_raised>>
    /\ UNCHANGED datagen_vars
    /\ UNCHANGED outside_run_datagen

\* the queue is empty and the child has exited: the loop ends by break, and
\* the statistics are written from datagen_wld, which is unbound if no line had
\* "finished games"
datagen_break ==
    /\ gpc = "parse"
    /\ returncode # "None"
    /\ IF datagen_wld = None
       THEN /\ parsed' = "UnboundLocalError"
            /\ gpc' = "except"
            /\ UNCHANGED datagen_result
       ELSE /\ parsed' = "returned"
            /\ gpc' = "finally"
            /\ datagen_result' = datagen_stats(datagen_result, datagen_wld)
    /\ UNCHANGED <<returncode, games_file, binpack_created, datagen_wld, lines_read, datagen_raised>>
    /\ UNCHANGED datagen_vars
    /\ UNCHANGED outside_run_datagen

\* the while condition finds the end time passed
datagen_past_end_time ==
    /\ gpc = "parse"
    /\ parsed' = "past end time"
    /\ gpc' = "except"
    /\ UNCHANGED <<returncode, games_file, binpack_created, datagen_wld, lines_read, datagen_result,
                   datagen_raised>>
    /\ UNCHANGED datagen_vars
    /\ UNCHANGED outside_run_datagen

\* except: the binpack is removed; the exception ends here
datagen_except ==
    /\ gpc = "except"
    /\ games_file' = FALSE
    /\ gpc' = "finally"
    /\ UNCHANGED <<returncode, binpack_created, run_datagen_locals, datagen_raised>>
    /\ UNCHANGED datagen_vars
    /\ UNCHANGED outside_run_datagen

\* finally: send_sigint, then p.wait(timeout=FASTCHESS_KILL_TIMEOUT); a child
\* that still runs exits with some code or is killed after the timeout
datagen_finally ==
    /\ gpc = "finally"
    /\ \E code \in {"0", "1", "TimeoutExpired"} :
         /\ returncode # "None" => code = returncode
         /\ CASE code = "TimeoutExpired" ->
                   /\ returncode' = "-9"
                   /\ gpc' = "done"
                   /\ UNCHANGED <<games_file, datagen_raised, dpc>>
              [] code = "0" ->
                   /\ returncode' = code
                   /\ gpc' = "send"
                   /\ dpc' = "post"
                   /\ UNCHANGED <<games_file, datagen_raised>>
              [] OTHER ->
                   /\ returncode' = code
                   /\ games_file' = FALSE
                   /\ datagen_raised' = "WorkerException"
                   /\ gpc' = "failed"
                   /\ UNCHANGED dpc
    /\ UNCHANGED <<binpack_created, run_datagen_locals, dattempt, dreplies>>
    /\ UNCHANGED outside_run_datagen

\* send_datagen_result has returned or raised
datagen_sent ==
    /\ gpc = "send"
    /\ dpc \notin {"none", "post"}
    /\ IF dpc \in {"returned", "False"}
       THEN gpc' = "done" /\ UNCHANGED datagen_raised
       ELSE gpc' = "failed" /\ datagen_raised' = dpc
    /\ UNCHANGED <<returncode, games_file, binpack_created, run_datagen_locals>>
    /\ UNCHANGED datagen_vars
    /\ UNCHANGED outside_run_datagen

(* ------------------------------ the system ----------------------------- *)

Next ==
    \/ run_games_entry
    \/ run_games_verify
    \/ run_games_loop
    \/ launch_fastchess
    \/ loop_test
    \/ get_nowait
    \/ poll
    \/ update_task
    \/ send_sigint
    \/ wait
    \/ run_games_after
    \/ enqueue_output
    \/ child_exits
    \/ deadline_passes

Spec == Init /\ [][Next]_vars

\* the workers that share the cache directory call cache_write and cache_read
\* in any interleaving
NextCache ==
    \/ \E w \in Writers : cache_write_call(w)
    \/ \E w \in Writers : temp_file_write(w)
    \/ \E w \in Writers : os_link(w)
    \/ \E w \in Writers : os_remove(w)
    \/ read_bytes

\* the testing directory and the cache as one call of establish_validated_net
\* can find them: the file missing, empty or holding some blob, the cache
\* without or with an entry for the name that an earlier cache_write linked
InitNet ==
    /\ npc = "call"
    /\ nargs \in [net : Names, global_cache : Caches]
    /\ dest \in {Absent, Bytes(<<>>)} \cup {Bytes(b) : b \in Blobs}
    /\ content = <<>>
    /\ net_attempt = 0
    /\ nerror = "none"
    /\ sleeps = <<>>
    /\ gets = 0
    /\ cache_reads = 0
    /\ dest_writes = 0
    /\ \E entry \in {<<>>} \cup Blobs :
         /\ cache_files = [n \in Names |-> IF n = nargs.net /\ entry # <<>> THEN 1 ELSE 0]
         /\ temp = [w \in Writers |-> IF w = 1 THEN entry ELSE <<>>]
         /\ wpc = [w \in Writers |-> IF w = 1 /\ entry # <<>> THEN "done" ELSE "idle"]
         /\ wargs = [w \in Writers |->
                       IF w = 1 /\ entry # <<>>
                       THEN [cache |-> "cache", name |-> nargs.net, data |-> entry]
                       ELSE NoArgs]
         /\ linked = [w \in Writers |-> w = 1 /\ entry # <<>>]
    /\ temp_names = [w \in Writers |-> FALSE]
    /\ followed = [w \in Writers |-> FALSE]
    /\ seen = [n \in Names |-> Absent]
    /\ last_read = [cache |-> "", name |-> 1, result |-> Absent]

NextNet ==
    \/ establish_validated_net
    \/ download_net
    \/ download_net_cache_write
    \/ \E w \in Writers : temp_file_write(w)
    \/ \E w \in Writers : os_link(w)
    \/ \E w \in Writers : os_remove(w)
    \/ write_bytes
    \/ net_validate
    \/ net_except

\* one call of establish_validated_net, by a worker that runs no match
NetCalled ==
    /\ InitIdle
    /\ InitNet
    /\ DatagenNotCalled
    /\ NoWrap
    /\ BenchNotCalled
    /\ MoreNotCalled

SpecNet == NetCalled /\ [][NextNet]_vars

\* send_datagen_result is called by a worker that runs no match
DatagenCalled ==
    /\ InitIdle
    /\ InitCache
    /\ NetNotCalled
    /\ dpc = "post"
    /\ dattempt = 0
    /\ dreplies = <<>>
    /\ NoWrap
    /\ BenchNotCalled
    /\ MoreNotCalled

\* the three retry loops, each in a run of its own: the match from its start,
\* establish_validated_net from its call, send_datagen_result from its call
RetryLoops == Init \/ NetCalled \/ DatagenCalled

NextRetry == Next \/ NextNet \/ send_datagen_result

SpecRetry == RetryLoops /\ [][NextRetry]_vars

\* a call cls(msg, e=e) of one of the worker's exception classes
Constructing ==
    /\ InitIdle
    /\ InitCache
    /\ NetNotCalled
    /\ DatagenNotCalled
    /\ wrap_args \in [cls : WorkerClasses, msg : Messages, e : Exceptions]
    /\ wrapped = <<>>
    /\ BenchNotCalled
    /\ MoreNotCalled

NextException == construct \/ construct_again

SpecException == Constructing /\ [][NextException]_vars

\* launch_fastchess has its command and, with SPSA, a reply that lets it go on
CommandFollowed ==
    /\ InitIdle
    /\ InitCache
    /\ NetNotCalled
    /\ DatagenNotCalled
    /\ NoWrap
    /\ BenchNotCalled
    /\ DatagenNotRun
    /\ EngineNotSetUp
    /\ script = <<>>
    /\ ReaderNotStarted
    /\ cmd_pc = "launch"
    /\ \E before \in Pieces, between \in Pieces, after \in Pieces :
         launch_args \in
             [cmd : {before \o <<Sentinel>> \o between \o <<Sentinel>> \o after},
              spsa_tuning : BOOLEAN,
              req : [w_params : Params(MaxParams), b_params : Params(MaxParams)]]
    /\ cmd = launch_args.cmd
    /\ w_params = <<>>
    /\ b_params = <<>>

NextCommand == launch_params \/ splice_w_params \/ splice_b_params

SpecCommand == CommandFollowed /\ [][NextCommand]_vars

\* run_datagen_games has started its child
DatagenRun ==
    /\ InitIdle
    /\ InitCache
    /\ NetNotCalled
    /\ DatagenNotCalled
    /\ NoWrap
    /\ BenchNotCalled
    /\ CommandNotFollowed
    /\ EngineNotSetUp
    /\ script = <<>>
    /\ ReaderNotStarted
    /\ gpc = "parse"
    /\ DatagenLocals
    /\ datagen_result \in DatagenBaselines

NextDatagen ==
    \/ datagen_creates_file
    \/ datagen_child_exits
    \/ datagen_line
    \/ datagen_break
    \/ datagen_past_end_time
    \/ datagen_except
    \/ datagen_finally
    \/ send_datagen_result
    \/ datagen_sent

SpecDatagen == DatagenRun /\ [][NextDatagen]_vars

\* one call of setup_engine, by a worker that runs no match, with a cache
\* that holds no blob for the sources or one that an earlier cache_write linked
EngineCalled ==
    /\ InitIdle
    /\ NetNotCalled
    /\ DatagenNotCalled
    /\ NoWrap
    /\ BenchNotCalled
    /\ CommandNotFollowed
    /\ DatagenNotRun
    /\ script = <<>>
    /\ ReaderNotStarted
    /\ epc = "call"
    /\ eargs \in [sha : Names, global_cache : Caches, existed : BOOLEAN]
    /\ destination = eargs.existed
    /\ tmp_dir = FALSE
    /\ blob = <<>>
    /\ blob_needs_write = FALSE
    /\ make_runs = 0
    /\ engine_raised = "none"
    /\ \E entry \in {<<>>} \cup Blobs :
         /\ cache_files = [n \in Names |-> IF n = eargs.sha /\ entry # <<>> THEN 1 ELSE 0]
         /\ temp = [w \in Writers |-> IF w = 1 THEN entry ELSE <<>>]
         /\ wpc = [w \in Writers |-> IF w = 1 /\ entry # <<>> THEN "done" ELSE "idle"]
         /\ wargs = [w \in Writers |->
                       IF w = 1 /\ entry # <<>>
                       THEN [cache |-> "cache", name |-> eargs.sha, data |-> entry]
                       ELSE NoArgs]
         /\ linked = [w \in Writers |-> w = 1 /\ entry # <<>>]
    /\ temp_names = [w \in Writers |-> FALSE]
    /\ followed = [w \in Writers |-> FALSE]
    /\ seen = [n \in Names |-> Absent]
    /\ last_read = [cache |-> "", name |-> 1, result |-> Absent]

NextEngine ==
    \/ setup_engine
    \/ engine_unzip
    \/ engine_cache_write
    \/ \E w \in Writers : temp_file_write(w)
    \/ \E w \in Writers : os_link(w)
    \/ \E w \in Writers : os_remove(w)
    \/ engine_nets
    \/ engine_make
    \/ engine_finally
    \/ destination_appears

SpecEngine == EngineCalled /\ [][NextEngine]_vars

\* a run without SPSA whose child plays every game and whose coordinator
\* accepts every update
HappyPath ==
    /\ task \in {t \in Tasks : ~t.spsa}
    /\ engines = FitEngines(task)
    /\ pc = "run_games"
    /\ InitLocals
    /\ InitCache
    /\ NetNotCalled
    /\ DatagenNotCalled
    /\ NoWrap
    /\ BenchNotCalled
    /\ CommandNotFollowed
    /\ DatagenNotRun
    /\ EngineNotSetUp
    /\ script \in Scripts(Max(0, task.num_games - TotalGames(task.stats)))
    /\ ReaderNotStarted

NextHappy ==
    \/ run_games_entry
    \/ run_games_verify
    \/ run_games_loop
    \/ spawn
    \/ loop_test
    \/ get_nowait
    \/ poll
    \/ update_task_alive
    \/ send_sigint
    \/ wait
    \/ run_games_after
    \/ scripted_output
    \/ scripted_exit

SpecHappy == HappyPath /\ [][NextHappy]_vars

\* the loop of parse_fastchess_output with its two reader threads and its
\* child, before the deadline and with lines that do not end the loop
ReaderStarted ==
    /\ InitIdle
    /\ InitCache
    /\ NetNotCalled
    /\ DatagenNotCalled
    /\ NoWrap
    /\ BenchNotCalled
    /\ CommandNotFollowed
    /\ DatagenNotRun
    /\ EngineNotSetUp
    /\ script = <<>>
    /\ rpc = "get"
    /\ ReaderLocals

NextReader ==
    \/ write_stdout
    \/ write_stderr
    \/ reader_child_exits
    \/ t_output
    \/ t_error
    \/ reader_get_nowait
    \/ reader_poll

SpecReader == ReaderStarted /\ [][NextReader]_vars

\* the two callers of cache_write, each in a run of its own
Fetching == NetCalled \/ EngineCalled

NextFetch == NextNet \/ NextEngine

SpecFetch == Fetching /\ [][NextFetch]_vars

\* one call of verify_signature, by a worker that runs no match
BenchCalled ==
    /\ InitIdle
    /\ InitCache
    /\ NetNotCalled
    /\ DatagenNotCalled
    /\ NoWrap
    /\ MoreNotCalled
    /\ bench_pc = "started"
    /\ \E cores \in 1..MaxCores :
         bench_args \in [signature : Signatures,
                         active_cores : {cores},
                         children : [1..cores -> BaseReports(1) \cup {NoPut}]]
    /\ queue = <<>>
    /\ bench_result = NoResult
    /\ verifications = <<>>

NextBench ==
    \/ \E c \in 1..MaxCores : run_single_bench(c)
    \/ verify_signature_call

SpecBench == BenchCalled /\ [][NextBench]_vars

\* the same, with children and a parent that take every step they can take
SpecBenchFair == SpecBench /\ WF_vars(NextBench)

\* the smallest tasks, with engines of every kind
Verifying ==
    /\ task \in {t \in Tasks :
                   t.stats = ZeroStats /\ t.num_games = 2 /\ t.sprt_batch = 0}
    /\ engines \in Engines(task)
    /\ pc = "run_games"
    /\ InitLocals
    /\ InitCache
    /\ NetNotCalled
    /\ DatagenNotCalled
    /\ NoWrap
    /\ BenchNotCalled
    /\ MoreNotCalled

SpecVerify == Verifying /\ [][Next]_vars

\* an empty cache directory shared by workers that run no match
CacheShared ==
    /\ InitIdle
    /\ InitCache
    /\ NetNotCalled
    /\ DatagenNotCalled
    /\ NoWrap
    /\ BenchNotCalled
    /\ MoreNotCalled

SpecCache == CacheShared /\ [][NextCache]_vars

(* ------------------------------- claims -------------------------------- *)

IsUpdate(post) == post.api = "update_task"

StatsConsistent(s) == 2 * SumSeq(s.pentanomial) = TotalGames(s)

Committed == posts.committed

AfterSupervisor == pc \in {"finally", "wait", "launched", "done", "failed"}

Supervising == pc \in {"test", "get", "poll", "post"}

\* C1: every statistics block sent in an update_task POST has twice the sum
\* of its pentanomial buckets equal to wins + losses + draws
C1_PostedStatsConsistent ==
    /\ IsUpdate(posts.last) => StatsConsistent(posts.last.stats)
    /\ \A i \in 1..Len(Committed) : StatsConsistent(Committed[i].stats)

\* an update was sent on top of a baseline that is not empty
C1_Witness ==
    /\ IsUpdate(posts.last)
    /\ TotalGames(saved_stats) > 0
    /\ TotalGames(posts.last.stats) > TotalGames(saved_stats)

C2_Witness ==
    /\ Len(Committed) = 2
    /\ TotalGames(Committed[1].stats) < TotalGames(Committed[2].stats)

C3_PostOnlyAtBoundary ==
    /\ IsUpdate(posts.last) =>
         \/ posts.last.games = posts.last.updated + posts.last.batch_size
         \/ posts.last.games = posts.last.games_to_play
    /\ \A i \in 1..Len(Committed) :
         \/ Committed[i].games % Committed[i].batch_size = 0
         \/ Committed[i].games = Committed[i].games_to_play
    /\ Supervising =>
         \/ num_games_updated % batch_size = 0
         \/ num_games_updated = games_to_play

\* a batch was committed before the last game, and a later block that is not
\* at a boundary was taken in without a POST
C3_Witness ==
    /\ Len(Committed) = 1
    /\ IsUpdate(posts.last)
    /\ posts.last.games < games_to_play
    /\ num_games_finished # posts.last.games
    /\ pc = "test"

Stopped == posts.last.reply = "not_alive"

\* C4: after an update_task reply with task_alive false the supervisor
\* returns false without raising, the child is terminated, launch_fastchess
\* returns false and run_games stops: no child is spawned and no POST is
\* sent after that reply
C4_StopOnTaskNotAlive ==
    /\ [](Stopped /\ IsUpdate(posts.last) =>
            /\ returned = "False"
            /\ raised = "none"
            /\ pc \in {"finally", "wait", "launched", "done"}
            /\ pc \in {"launched", "done"} => child = "exited" /\ ~task_alive)
    /\ [][Stopped => posts' = posts /\ spawned' = spawned]_vars

\* run_games has stopped after such a reply with games still to play
C4_Witness ==
    /\ Stopped
    /\ IsUpdate(posts.last)
    /\ pc = "done"
    /\ games_remaining > 0

ErrorReply == IsUpdate(posts.last) /\ posts.last.reply = "error"

\* C5 as claimed: after an update_task reply with an error field the
\* supervisor does not raise, already-committed has advanced to G and the
\* supervisor goes on reading
C5_ErrorReplyCommits ==
    [][ErrorReply' /\ posts' # posts =>
         /\ returned' = "none"
         /\ num_games_updated' = num_games_finished
         /\ pc' = "test"]_vars

\* C5 amended: an update_task reply with an error field ends the retry loop
\* after that attempt, the supervisor fails with "Too many failed update
\* attempts", already-committed is left unchanged, no further line is read and
\* no further POST is sent
C5_ErrorReplyAborts ==
    /\ [](ErrorReply =>
            /\ returned = "Too many failed update attempts"
            /\ AfterSupervisor
            /\ pc = "finally" => num_games_updated = posts.last.updated
            /\ pc \in {"launched", "failed"} => raised = returned)
    /\ [][ErrorReply' /\ posts' # posts =>
            /\ num_games_updated' = num_games_updated
            /\ ~update_succeeded'
            /\ pc' = "finally"]_vars
    /\ [][ErrorReply => posts' = posts /\ emitted' = emitted]_vars

\* the supervisor has failed after the first attempt got an error reply
C5_Witness ==
    /\ ErrorReply
    /\ attempt = 1
    /\ pc = "finally"
    /\ num_games_finished > num_games_updated

ExceptionReply == IsUpdate(posts.last) /\ posts.last.reply = "exception"

\* C6: at a batch boundary at most 5 update_task attempts are made; an
\* attempt that raises a non-fatal exception is followed by another one until
\* 5 were made, a successful attempt ends the retries, and after 5 raising
\* attempts the supervisor fails with "Too many failed update attempts"
\* leaving already-committed unchanged
C6_FiveAttempts ==
    /\ attempt <= 5
    /\ pc = "post" => attempt < 5
    /\ pc = "post" /\ attempt > 0 => ExceptionReply
    /\ ExceptionReply =>
         \/ attempt < 5 /\ pc = "post" /\ returned = "none"
         \/ /\ returned = "Too many failed update attempts"
            /\ AfterSupervisor
            /\ pc = "finally" =>
                 attempt = 5 /\ num_games_updated = posts.last.updated
    /\ IsUpdate(posts.last) /\ posts.last.reply = "alive" /\ posts.last.child = spawned
         /\ Supervising =>
            /\ pc # "post" => num_games_updated = posts.last.games
            /\ pc = "post" => attempt = 0

\* five attempts raised, at a boundary after an earlier batch was committed
C6_Witness ==
    /\ ExceptionReply
    /\ attempt = 5
    /\ returned = "Too many failed update attempts"
    /\ num_games_updated > 0

\* C7: a "Finished match" line parsed while the number of committed games
\* differs from games_to_play makes the supervisor fail with the unclean
\* finish error; no value is returned
C7_UncleanFinishFails ==
    /\ [][(/\ pc = "get"
           /\ q # <<>>
           /\ Head(q).kind = "finished"
           /\ num_games_updated # games_to_play
           /\ q' = Tail(q))
          => returned' = "Finished match uncleanly" /\ pc' = "finally"]_vars
    /\ [](returned = "Finished match uncleanly" =>
            /\ pc = "finally" => num_games_updated # games_to_play
            /\ ~finished_seen
            /\ pc \in {"finally", "wait", "launched", "failed"}
            /\ pc \in {"launched", "failed"} => raised = returned)

\* the task has failed on an unclean finish after a first batch was committed
C7_Witness ==
    /\ pc = "failed"
    /\ raised = "Finished match uncleanly"
    /\ Len(Committed) > 0

\* C8: once a "Finished match" line was parsed with all games committed the
\* supervisor's outcome is success: nothing later makes it end in an error
C8_CleanFinishIsSuccess ==
    finished_seen => returned \in {"none", "True"}

\* C9: the supervisor ends in one of three ways: false after a reply with
\* task_alive false, true after a "Finished match" line parsed with
\* committed games = games_to_play, or an error
C9_ThreeTerminalStates ==
    /\ returned \in {"none", "True", "False"} \cup Errors
    /\ returned = "False" => IsUpdate(posts.last) /\ posts.last.reply = "not_alive"
    /\ returned = "True" => finished_seen
    /\ returned = "True" /\ pc = "finally" => num_games_updated = games_to_play

\* C10 as claimed: once the deadline is reached while the child has not
\* exited, the supervisor returns neither true nor false
C10_DeadlineNeverReturns ==
    expired /\ pc = "finally" /\ child = "running" =>
        returned \notin {"True", "False"}

\* C10 amended: when the while condition finds the deadline reached, the
\* supervisor raises the "past end time" error, whether or not the child has
\* exited, and returns neither true nor false on that path; a deadline that
\* passes during an iteration does not interrupt it, and a supervisor that
\* returns or raises anything else never saw the deadline in the while condition
C10_DeadlineRaises ==
    /\ test_expired =>
         /\ returned = "past end time"
         /\ pc \in {"finally", "wait", "launched", "failed"}
         /\ pc \in {"launched", "failed"} => raised = "past end time"
    /\ returned \in {"True", "False"} => ~test_expired
    /\ returned = "past end time" => test_expired

\* the deadline ended the supervisor while the child was still running and a
\* batch had been committed
C10_Witness ==
    /\ returned = "past end time"
    /\ pc = "finally"
    /\ child = "running"
    /\ num_games_updated > 0

\* the deadline passed during the last POST, whose reply made the supervisor
\* return false
C10_WitnessReturn ==
    /\ expired
    /\ pc = "finally"
    /\ child = "running"
    /\ returned = "False"

\* C11: every exit of the match supervisor leads to the finally clause of
\* launch_fastchess, which first attempts the interrupt, then waits for the
\* child for at most FASTCHESS_KILL_TIMEOUT seconds whether or not the
\* interrupt could be sent, and calls kill_process only when the child was
\* still running after the whole timeout; nothing is killed before the
\* interrupt was attempted
C11_TerminationProtocol ==
    /\ [][Supervising /\ ~Supervising' => pc' = "finally"]_vars
    /\ [][pc = "finally" => pc' = "wait" /\ killed' = killed /\ child' = child]_vars
    /\ [][pc = "wait" =>
            /\ pc' = "launched"
            /\ child' = "exited"
            /\ waited' <= FASTCHESS_KILL_TIMEOUT
            /\ killed' => child = "running" /\ waited' = FASTCHESS_KILL_TIMEOUT]_vars
    /\ [][killed' /\ ~killed => pc = "wait"]_vars
    /\ [][interrupted' /\ ~interrupted => pc = "finally" /\ ~killed]_vars
    /\ [](pc \in {"finally", "wait"} => ~killed)

\* the supervisor failed on an assertion, the interrupt could not be sent, and
\* the child was killed after the timeout
C11_Witness ==
    /\ pc = "launched"
    /\ returned = "AssertionError"
    /\ ~interrupted
    /\ killed
    /\ waited = FASTCHESS_KILL_TIMEOUT

\* C12: cache_write is first-writer-wins: once a call has linked its bytes
\* under a name and returned, cache_read of that name returns those bytes
\* whatever later calls of cache_write for the name do, and the bytes under
\* a name that is present never change
C12_FirstWriterWins ==
    /\ [](\A w \in Writers :
            wpc[w] = "done" /\ linked[w] =>
                cache_read("cache", wargs[w].name) = Bytes(wargs[w].data))
    /\ [][\A n \in Names :
            cache_files[n] # 0 =>
                /\ cache_files'[n] = cache_files[n]
                /\ temp'[cache_files[n]] = temp[cache_files[n]]]_vars

\* a second call for the same name with other bytes ran to its end after the
\* first had linked and returned
C12_Witness ==
    \E w1, w2 \in Writers :
        /\ wpc[w1] = "done" /\ linked[w1]
        /\ wpc[w2] = "done" /\ followed[w2] /\ ~linked[w2]
        /\ wargs[w2].cache = "cache"
        /\ wargs[w2].name = wargs[w1].name
        /\ temp[w2] = wargs[w2].data
        /\ wargs[w2].data # wargs[w1].data

\* C13: under any interleaving of writers and readers cache_read returns None
\* or the complete bytes of the one writer whose link succeeded for the name,
\* and once a read of a name has returned bytes every later read of the name
\* in that cache directory returns the same bytes
C13_ReadsWholeBlobOfOneWriter ==
    /\ last_read.result.found =>
         /\ last_read.cache = "cache"
         /\ \E w \in Writers :
              /\ linked[w]
              /\ wargs[w].name = last_read.name
              /\ wargs[w].data = last_read.result.bytes
              /\ cache_files[last_read.name] = w
    /\ \A n \in Names :
         seen[n].found /\ last_read.name = n /\ last_read.cache = "cache" =>
             last_read.result = seen[n]
    /\ \A n \in Names : seen[n].found => cache_read("cache", n) = seen[n]

\* a read returned the bytes of one writer while another writer of the same
\* name, with other bytes, is halfway through its temporary file
C13_Witness ==
    /\ last_read.result.found
    /\ \E w \in Writers :
         /\ wpc[w] = "write"
         /\ wargs[w].name = last_read.name
         /\ Len(temp[w]) = 1
         /\ wargs[w].data # last_read.result.bytes

\* C14: establish_validated_net makes at most 5 download attempts, sleeps
\* 15 * k seconds after the k-th failed attempt, and surfaces the error after
\* the 5th failed attempt
C14_FiveDownloadAttempts ==
    /\ net_attempt <= 5
    /\ npc = "raised" /\ nerror = "WorkerException" =>
         /\ net_attempt = 5
         /\ sleeps = <<15, 30, 45, 60, 75>>

\* C15: when establish_validated_net returns, testing_dir / net exists and
\* its digest matches the name; when the file exists and validates at
\* entry the call returns without a cache read, a GET, a write of the file or
\* a cache write
C15_ReturnsValidatedNet ==
    /\ [](npc = "returned" => dest.found /\ hexdigest(dest.bytes) = nargs.net)
    /\ [][npc = "call" /\ dest.found /\ hexdigest(dest.bytes) = nargs.net =>
            /\ npc' = "returned"
            /\ UNCHANGED <<dest, gets, cache_reads, dest_writes, cache_vars>>]_vars
    /\ [](npc = "returned" /\ net_attempt = 0 =>
            /\ gets = 0
            /\ cache_reads = 0
            /\ dest_writes = 0
            /\ wpc[NetWriter] = "idle")

\* the call returned after a first download that did not validate and a second
\* one that did and was put in the cache
C15_Witness ==
    /\ npc = "returned"
    /\ net_attempt = 2
    /\ gets = 2
    /\ dest_writes = 2
    /\ linked[NetWriter]

\* C16: a FatalException raised in a retry loop leaves the loop at once: in
\* establish_validated_net, in the update_task loop of the match supervisor
\* and in send_datagen_result no further attempt and no sleep follows it, and
\* the error that leaves the function is that FatalException
C16_FatalIsReRaised ==
    /\ [][npc = "except" /\ nerror = "FatalException" =>
            /\ npc' = "raised"
            /\ nerror' = "FatalException"
            /\ UNCHANGED <<sleeps, net_attempt, gets, cache_reads, dest_writes>>]_vars
    /\ [][nerror = "FatalException" => nerror' = "FatalException"]_vars
    /\ [][posts' # posts /\ IsUpdate(posts'.last) /\ posts'.last.reply = "fatal" =>
            returned' = "FatalException" /\ pc' = "finally"]_vars
    /\ [](IsUpdate(posts.last) /\ posts.last.reply = "fatal" =>
            /\ returned = "FatalException"
            /\ AfterSupervisor
            /\ pc \in {"launched", "failed"} => raised = "FatalException")
    /\ [](\A i \in 1..Len(dreplies) :
            dreplies[i] = "fatal" => i = Len(dreplies) /\ dpc = "FatalException")

\* the match supervisor got a FatalException in the third attempt of an update
C16_Witness ==
    /\ returned = "FatalException"
    /\ pc = "finally"
    /\ attempt = 3

\* the download raised a FatalException after a failed attempt
C16_WitnessNet ==
    /\ npc = "raised"
    /\ nerror = "FatalException"
    /\ Len(sleeps) = 1

\* send_datagen_result got a FatalException in its second attempt
C16_WitnessDatagen ==
    /\ dpc = "FatalException"
    /\ Len(dreplies) = 2

\* C17: cls(msg, e=x) with x a FatalException is x itself; with x any
\* instance of WorkerException the call returns x, so that handing the result
\* to another call returns the same object again, and no call returns a
\* non-fatal object for a fatal e
C17_WrapKeepsWorkerErrors ==
    /\ Len(wrapped) >= 1 /\ wrap_args.e.class = "FatalException" =>
         wrapped[1] = wrap_args.e
    /\ Len(wrapped) >= 1 /\ wrap_args.e.class \in WorkerClasses =>
         wrapped[1] = wrap_args.e
    /\ Len(wrapped) = 2 => wrapped[2] = wrapped[1]
    /\ \A i \in 1..Len(wrapped) :
         wrap_args.e.class = "FatalException" => wrapped[i].class = "FatalException"

\* RunException(msg, e=x) was called with x a FatalException, and its result
\* handed to another call
C17_Witness ==
    /\ Len(wrapped) = 2
    /\ wrap_args.cls = "RunException"
    /\ wrap_args.e.class = "FatalException"
    /\ wrap_args.msg # wrap_args.e.msg

\* every bench child put a signature and an NPS on the queue
AllPrinted(reports) == \A c \in DOMAIN reports : reports[c].printed

\* every bench child put the signature expected
AllMatch(reports, signature) ==
    \A c \in DOMAIN reports : reports[c].printed /\ reports[c].sig = signature

\* the sum of the NPS of the children, in the order of the children
TotalNps(reports) == SumSeq([c \in DOMAIN reports |-> reports[c].nps])

\* C18: verify_signature returns only if each of the N children reported the
\* expected signature, and it returns the mean of the N reported NPS (their
\* sum over N) whatever the order in which the children put their results;
\* when the N children reported and one signature differs, it raises
\* RunException
C18_AllSignaturesThenMean ==
    bench_pc \in {"returned", "raised"} =>
        /\ bench_pc = "returned" =>
              /\ bench_result.raises = "none"
              /\ AllMatch(bench_args.children, bench_args.signature)
              /\ bench_result.sum = TotalNps(bench_args.children)
              /\ bench_result.cores = bench_args.active_cores
        /\ /\ AllPrinted(bench_args.children)
           /\ ~AllMatch(bench_args.children, bench_args.signature)
           => bench_pc = "raised" /\ bench_result.raises = "RunException"

\* two children with different NPS put their results in the order 2, 1 and
\* verify_signature returned
C18_Witness ==
    /\ bench_pc = "returned"
    /\ queue = <<2, 1>>
    /\ bench_args.children[1].nps # bench_args.children[2].nps

\* the second of two children reported another signature
C18_WitnessWrongBench ==
    /\ bench_pc = "raised"
    /\ bench_args.active_cores = 2
    /\ AllPrinted(bench_args.children)
    /\ bench_args.children[queue[1]].sig = bench_args.signature
    /\ bench_args.children[queue[2]].sig # bench_args.signature

\* every child of an engine that run_games verifies put a signature
BenchReported(e) ==
    /\ AllPrinted(e.base)
    /\ Distinct(e) => AllPrinted(e.new)

\* the base engine or the new engine reported a signature that is not the
\* one the run expects of it
Mismatch(e) ==
    \/ ~AllMatch(e.base, e.base_signature)
    \/ Distinct(e) /\ ~AllMatch(e.new, e.new_signature)

\* run_games is past the verification of the engines
Verified == pc \notin {"run_games", "verify_signature"}

\* C19: when the bench children reported and the signature of the base
\* engine or of the new engine is not the expected one, run_games fails with
\* RunException, no child is spawned and no POST is sent
C19_WrongBenchStartsNoMatch ==
    BenchReported(engines) /\ Mismatch(engines) /\ Verified =>
        /\ pc = "failed"
        /\ raised = "RunException"
        /\ spawned = 0
        /\ child = "none"
        /\ posts.last = NoPost
        /\ posts.committed = <<>>

\* the base engine passed and the new engine, a file of its own, reported a
\* wrong signature
C19_Witness ==
    /\ pc = "failed"
    /\ raised = "RunException"
    /\ engines.new_engine = "new"
    /\ AllMatch(engines.base, engines.base_signature)
    /\ AllPrinted(engines.new)
    /\ ~AllMatch(engines.new, engines.new_signature)

\* the base engine reported a wrong signature
C19_WitnessBase ==
    /\ pc = "failed"
    /\ raised = "RunException"
    /\ BenchReported(engines)
    /\ ~AllMatch(engines.base, engines.base_signature)

\* verify_signature returned a base_nps, and it is below the threshold
BaseSlow(e) ==
    /\ AllMatch(e.base, e.base_signature)
    /\ TotalNps(e.base) < RequiredNps(Len(e.base))

\* verify_signature returned a base_nps at or above the threshold
BaseFast(e) ==
    /\ AllMatch(e.base, e.base_signature)
    /\ TotalNps(e.base) >= RequiredNps(Len(e.base))

\* the verification of the new engine, if there was one, returned
NewPassed(e) == Distinct(e) => AllMatch(e.new, e.new_signature)

\* at or above the threshold the verification raises no FatalException
NoSlowHostError ==
    [][pc = "verify_signature" /\ BaseFast(engines) =>
           raised' # "FatalException"]_vars

\* C20 as stated, for bench children that all reported: a base NPS below the
\* threshold makes run_games fail with FatalException before a child is
\* spawned, and a base NPS at or above it raises no slow-host error
C20_SlowHostIsFatal ==
    /\ [](BaseSlow(engines) /\ BenchReported(engines) /\ Verified =>
            pc = "failed" /\ raised = "FatalException" /\ spawned = 0)
    /\ NoSlowHostError

\* C20: a base NPS below the threshold, when the verification of the new
\* engine did not fail, makes run_games fail with FatalException before a
\* child is spawned; a base NPS at or above the threshold raises no
\* slow-host error
C20_SlowHostIsFatalAfterSignatures ==
    /\ [](BaseSlow(engines) /\ NewPassed(engines) /\ Verified =>
            pc = "failed" /\ raised = "FatalException" /\ spawned = 0)
    /\ NoSlowHostError

\* a slow host with a new engine of its own that passed
C20_Witness ==
    /\ pc = "failed"
    /\ raised = "FatalException"
    /\ BaseSlow(engines)
    /\ engines.new_engine = "new"
    /\ spawned = 0

\* a host exactly at the threshold spawned a child
C20_WitnessAtThreshold ==
    /\ spawned > 0
    /\ TotalNps(engines.base) = RequiredNps(Len(engines.base))

\* the positions of the sentinels in a command vector
SentinelsOf(c) == {i \in 1..Len(c) : c[i] = Sentinel}

\* token is option.<name>=<k> for the parameter x, with k one of
\* floor(value) and floor(value) + 1
TokenOf(token, x) ==
    /\ token.kind = "option"
    /\ token.name = x.name
    /\ token.k \in {x.value \div 2, (x.value \div 2) + 1}

\* C21: the command handed to Popen has no _spsa_ token and keeps the other
\* tokens of the command vector in their order; at the place of the first
\* sentinel it has one token per entry of w_params, at the place of the
\* second one token per entry of b_params, in list order and rounded to
\* floor(value) or floor(value) + 1; without SPSA the sentinels are removed
C21_SentinelsSpliced ==
    cmd_pc = "Popen" =>
        LET c == launch_args.cmd
            first == CHOOSE i \in SentinelsOf(c) : \A j \in SentinelsOf(c) : i <= j
            second == CHOOSE i \in SentinelsOf(c) : \A j \in SentinelsOf(c) : i >= j
            w == IF launch_args.spsa_tuning THEN launch_args.req.w_params ELSE <<>>
            b == IF launch_args.spsa_tuning THEN launch_args.req.b_params ELSE <<>>
        IN  /\ SentinelsOf(cmd) = {}
            /\ Len(cmd) = Len(c) - 2 + Len(w) + Len(b)
            /\ \A i \in 1..(first - 1) : cmd[i] = c[i]
            /\ \A j \in 1..Len(w) : TokenOf(cmd[first - 1 + j], w[j])
            /\ \A i \in (first + 1)..(second - 1) : cmd[i - 1 + Len(w)] = c[i]
            /\ \A j \in 1..Len(b) : TokenOf(cmd[second - 2 + Len(w) + j], b[j])
            /\ \A i \in (second + 1)..Len(c) : cmd[i - 2 + Len(w) + Len(b)] = c[i]

\* with SPSA, two parameters for the new engine and one for the base engine
\* were spliced in, one rounded down and one rounded up
C21_Witness ==
    /\ cmd_pc = "Popen"
    /\ launch_args.spsa_tuning
    /\ Len(w_params) = 2
    /\ Len(b_params) = 1
    /\ \E i, j \in 1..Len(cmd) :
         /\ cmd[i].kind = "option" /\ cmd[i].k = w_params[1].value \div 2
         /\ cmd[j].kind = "option" /\ cmd[j].k = (w_params[2].value \div 2) + 1

\* without SPSA the sentinels were removed, whatever the reply held
C21_WitnessDisabled ==
    /\ cmd_pc = "Popen"
    /\ ~launch_args.spsa_tuning
    /\ Len(cmd) = Len(launch_args.cmd) - 2

\* run_datagen_games has returned or raised
DatagenEnded == gpc \in {"done", "failed"}

\* parse_datagen_output raised an exception
ParseRaised == parsed \notin {"none", "returned"}

\* C22: when parse_datagen_output raised or the child exited with a non-zero
\* code, run_datagen_games ends with the output file deleted, an error raised
\* to its caller and no update_task sent; an update_task is sent only when
\* the parse succeeded and the child exited with code 0, and then at least
\* once and accepted at most once
C22_DatagenFailureIsReported ==
    /\ DatagenEnded /\ (ParseRaised \/ returncode = "1") =>
          /\ ~games_file
          /\ datagen_raised # "none"
          /\ dreplies = <<>>
    /\ dreplies # <<>> => parsed = "returned" /\ returncode = "0"
    /\ DatagenEnded /\ parsed = "returned" /\ returncode = "0" =>
          /\ dreplies # <<>>
          /\ Cardinality({i \in 1..Len(dreplies) : dreplies[i] = "alive"}) <= 1

\* setup_engine has ended
EngineEnded == epc \in {"returned", "raised"}

\* C23: when the destination exists as setup_engine is called, make is never
\* started and the call ends with the fatal error of another worker in the
\* same directory, whatever the download, the extraction and the nets did
C23_ExistingDestinationIsFatal ==
    eargs.existed =>
        /\ make_runs = 0
        /\ EngineEnded =>
              /\ epc = "raised"
              /\ engine_raised = "Another worker is running in the same directory!"

\* the fetcher passes these arguments to cache_write in this step
CacheWriteCalled == wpc[NetWriter] = "idle" /\ wpc'[NetWriter] # "idle"

\* C28: what the fetcher passes to cache_write was not read from the cache
\* (the cache holds nothing under that name at the call); it is a net that
\* was downloaded in this attempt and whose hash is its name, or a source zip
\* that was downloaded and extracted without error
C28_OnlyCheckedContentCached ==
    [][CacheWriteCalled =>
         LET a == wargs'[NetWriter]
         IN  /\ ~cache_read(a.cache, a.name).found
             /\ \/ /\ npc = "cache_write"
                   /\ a = [cache |-> nargs.global_cache, name |-> nargs.net,
                           data |-> content]
                   /\ gets > 0
                   /\ hexdigest(a.data) = a.name
                \/ /\ epc = "cache_write"
                   /\ a = [cache |-> eargs.global_cache, name |-> eargs.sha,
                           data |-> blob]
                   /\ blob_needs_write
                   /\ unzip(a.data) = "file_list"
                   /\ engine_raised = "none"]_vars

\* a source zip that was downloaded and extracted is linked into the cache
C28_Witness ==
    /\ epc = "exists"
    /\ blob_needs_write
    /\ linked[NetWriter]
    /\ cache_read(eargs.global_cache, eargs.sha) = Bytes(blob)

\* a downloaded net whose hash is its name is linked into the cache
C28_WitnessNet ==
    /\ npc = "returned"
    /\ linked[NetWriter]
    /\ cache_read(nargs.global_cache, nargs.net) = Bytes(content)

\* C29: once a cache_write has returned, whatever its steps did, the
\* temporary file it created is no longer in the cache directory
C29_NoTemporaryFileLeft ==
    \A w \in Writers : wpc[w] = "done" => ~temp_names[w]

\* the game counts at which an update_task is due: the multiples of the
\* batch size and the last game
BoundaryGames(games, batch) ==
    {g \in 1..games : g % 2 = 0 /\ (g % batch = 0 \/ g = games)}

\* C24: in a run without SPSA whose child reports every pair once and then
\* "Finished match", and whose coordinator accepts every update, nothing
\* fails and nothing gets stuck; when the run is done, one child has run, the
\* supervisor has returned True, the update_task requests sent are one for
\* each multiple of the batch size and one for the last game, in increasing
\* order, and the last one carries the baseline plus all the games
C24_HappyPath ==
    /\ spawned <= 1
    /\ spawned = 1 => raised = "none" /\ returned \in {"none", "True"}
    /\ pc \notin {"done", "failed"} => ENABLED NextHappy
    /\ pc = "failed" => spawned = 0
    /\ pc = "done" =>
          LET sent == posts.committed
          IN  /\ spawned = 1
              /\ returned = "True"
              /\ task_alive
              /\ posts.last.api = "update_task"
              /\ {sent[i].games : i \in 1..Len(sent)}
                    = BoundaryGames(games_to_play, batch_size)
              /\ \A i \in 1..(Len(sent) - 1) : sent[i].games < sent[i + 1].games
              /\ posts.last = sent[Len(sent)]
              /\ TotalGames(posts.last.stats) = TotalGames(task.stats) + games_to_play
              /\ TotalGames(posts.last.stats) = task.num_games
              /\ 2 * SumSeq(posts.last.stats.pentanomial) = task.num_games

\* six games with a batch of four: updates after the fourth and the sixth
C24_Witness ==
    /\ pc = "done"
    /\ script = <<>>
    /\ batch_size = 4
    /\ games_to_play = 6
    /\ Len(posts.committed) = 2

\* the supervisor takes a line from the queue that it parses without an error
LineParsed ==
    /\ pc = "get"
    /\ q # <<>>
    /\ Head(q).kind \notin {"no_option", "invalid_value", "bad_points"}
    /\ ~FinishedUncleanly(Head(q))

\* the captures as they stand once the line at the head of the queue is matched
WLDAfterLine ==
    IF Head(q).kind = "wld" THEN Head(q).v ELSE fastchess_WLD_results

PtnmlAfterLine ==
    IF Head(q).kind = "ptnml" THEN Head(q).v ELSE fastchess_ptnml_results

\* the line at the head of the queue completes a block
BlockCompleted == LineParsed /\ WLDAfterLine # None /\ PtnmlAfterLine # None

\* C25: the baseline is captured when the supervisor is entered and stays as
\* it is while the supervisor runs; every complete block sets wins, losses,
\* draws and the pentanomial to the baseline plus the block, whatever the
\* statistics were before, so a block processed twice changes nothing
C25_BaselinePlusBlock ==
    /\ [][(pc \in {"test", "get", "poll", "post"}) => UNCHANGED saved_stats]_vars
    /\ [][(pc = "launch" /\ pc' = "test") => (saved_stats' = stats)]_vars
    /\ [][BlockCompleted =>
            /\ stats'.wins = saved_stats.wins + WLDAfterLine[2]
            /\ stats'.losses = saved_stats.losses + WLDAfterLine[3]
            /\ stats'.draws = saved_stats.draws + WLDAfterLine[4]
            /\ \A i \in 1..5 :
                  stats'.pentanomial[i]
                    = saved_stats.pentanomial[i] + PtnmlAfterLine[i]]_vars

\* a second block has been added to a baseline with games in it
C25_Witness ==
    /\ pc \in {"test", "post"}
    /\ TotalGames(saved_stats) > 0
    /\ num_games_finished = 4
    /\ num_games_updated = 2
    /\ TotalGames(stats) = TotalGames(saved_stats) + 4

\* the four assertions on the block that the line at the head of the queue
\* completes, on the statistics the step has summed
CommitChecks ==
    /\ 2 * SumSeq(stats'.pentanomial) = stats'.wins + stats'.losses + stats'.draws
    /\ WLDAfterLine[1] = 2 * SumSeq(PtnmlAfterLine)
    /\ WLDAfterLine[1] <= num_games_updated + batch_size
    /\ WLDAfterLine[1] <= games_to_play

\* C26: a block that fails one of the four assertions makes the supervisor
\* leave with an AssertionError in the same step, without a POST, and no POST
\* follows; whenever an update_task is about to be sent, the block it
\* carries passed all four
C26_NoPostForBadBlock ==
    /\ [][BlockCompleted /\ ~CommitChecks =>
            /\ pc' = "finally"
            /\ returned' = "AssertionError"
            /\ UNCHANGED posts]_vars
    /\ [][returned = "AssertionError" => UNCHANGED posts]_vars
    /\ [][(pc = "get" /\ pc' = "post") => BlockCompleted /\ CommitChecks]_vars
    /\ [][posts'.last # posts.last /\ posts'.last.api = "update_task" =>
            /\ pc = "post"
            /\ 2 * SumSeq(stats.pentanomial) = TotalGames(stats)
            /\ num_games_finished
                  = 2 * (SumSeq(stats.pentanomial) - SumSeq(saved_stats.pentanomial))
            /\ num_games_finished <= num_games_updated + batch_size
            /\ num_games_finished <= games_to_play
            /\ posts'.last.stats = stats
            /\ posts'.last.games = num_games_finished]_vars

\* a block with more games than there are to play has ended the supervisor
C26_Witness ==
    /\ pc = "finally"
    /\ returned = "AssertionError"
    /\ num_games_finished > games_to_play
    /\ num_games_finished = 2 * SumSeq(fastchess_ptnml_results)
    /\ num_games_finished <= num_games_updated + batch_size
    /\ 2 * SumSeq(stats.pentanomial) = TotalGames(stats)

\* C27: a line that completes no block leaves each capture as it was, or
\* replaces it by the capture of its own kind, and leaves wins, losses, draws
\* and the pentanomial alone; nothing but a line changes a capture; a line that
\* completes a block sets the statistics and, the assertions passed, clears
\* both captures in the same step, with or without a POST to follow
C27_CapturesIndependent ==
    /\ [][LineParsed /\ ~BlockCompleted =>
            /\ fastchess_WLD_results' = WLDAfterLine
            /\ fastchess_ptnml_results' = PtnmlAfterLine
            /\ stats'.wins = stats.wins
            /\ stats'.losses = stats.losses
            /\ stats'.draws = stats.draws
            /\ stats'.pentanomial = stats.pentanomial
            /\ pc' = "test"
            /\ UNCHANGED <<posts, num_games_finished>>]_vars
    /\ [][BlockCompleted /\ CommitChecks =>
            /\ fastchess_WLD_results' = None
            /\ fastchess_ptnml_results' = None
            /\ num_games_finished' = WLDAfterLine[1]
            /\ pc' \in {"test", "post"}]_vars
    /\ [][(pc \in {"test", "poll", "post"}) \/ (pc = "get" /\ q = <<>>) =>
            UNCHANGED <<fastchess_WLD_results, fastchess_ptnml_results>>]_vars
    /\ [](pc \in {"test", "get", "poll", "post"} =>
            fastchess_WLD_results = None \/ fastchess_ptnml_results = None)

\* a block was taken in, the captures are cleared, and no POST was due
C27_Witness ==
    /\ pc = "test"
    /\ fastchess_WLD_results = None
    /\ fastchess_ptnml_results = None
    /\ num_games_finished = 2
    /\ num_games_updated = 0
    /\ batch_size = 4
    /\ games_to_play > 2
    /\ posts.last.api = "none"
    /\ TotalGames(stats) = TotalGames(saved_stats) + 2

\* a capture of the games line is held while a line of another kind is read
C27_WitnessHeld ==
    /\ pc = "get"
    /\ q # <<>>
    /\ Head(q).kind \in {"other", "disconnects", "on_time"}
    /\ fastchess_WLD_results # None
    /\ fastchess_ptnml_results = None

\* launch_fastchess is entered for a run with SPSA
SpsaLaunch == pc = "launch" /\ task.spsa

\* C30: with SPSA a child is started only in the step in which request_spsa
\* was answered without an error and with task_alive true; an answer with
\* task_alive false makes launch_fastchess return False, an answer with an
\* error makes it raise WorkerException, and neither starts a child
C30_SpawnAfterSpsaReply ==
    /\ [][task.spsa /\ (spawned' # spawned \/ (child' = "running" /\ child # "running")) =>
            /\ pc = "launch"
            /\ spawned' = spawned + 1
            /\ posts'.last.api = "request_spsa"
            /\ posts'.last.reply = "alive"
            /\ posts'.last.child = spawned]_vars
    /\ [][SpsaLaunch => (posts'.last.api = "request_spsa")]_vars
    /\ [][SpsaLaunch /\ posts'.last.reply = "not_alive" =>
            /\ pc' = "launched"
            /\ ~task_alive'
            /\ raised' = "none"
            /\ UNCHANGED <<spawned, child>>]_vars
    /\ [][SpsaLaunch /\ posts'.last.reply = "error" =>
            /\ pc' = "launched"
            /\ raised' = "WorkerException"
            /\ UNCHANGED <<spawned, child>>]_vars
    /\ [][(pc = "launched" /\ task.spsa /\ posts.last.api = "request_spsa"
             /\ posts.last.reply \in {"not_alive", "error"}) =>
            pc' = IF posts.last.reply = "error" THEN "failed" ELSE "done"]_vars

\* the second batch of an SPSA run was refused, with one child run so far
C30_Witness ==
    /\ task.spsa
    /\ pc = "launched"
    /\ posts.last.api = "request_spsa"
    /\ posts.last.reply = "not_alive"
    /\ spawned = 1
    /\ child = "exited"

\* a child of an SPSA run is running, after a reply with task_alive true
C30_WitnessSpawned ==
    /\ task.spsa
    /\ pc = "test"
    /\ child = "running"
    /\ posts.last.api = "request_spsa"
    /\ posts.last.reply = "alive"

\* parse_datagen_output writes the statistics in this step
DatagenStatsWritten == gpc = "parse" /\ parsed' = "returned"

\* C31: the statistics parse_datagen_output writes have the report added onto
\* the baseline, the buckets b0 = b4 = 0, b1 = max(-(W - L), 0),
\* b3 = max(W - L, 0), b2 = (W + D + L) / 2 - |W - L|, and twice the sum of
\* the buckets is W + L + D
C31_DatagenPentanomial ==
    [][DatagenStatsWritten =>
         LET W == datagen_result'.wins
             L == datagen_result'.losses
             D == datagen_result'.draws
             b == datagen_result'.pentanomial
             diff == IF W >= L THEN W - L ELSE L - W
         IN  /\ W = datagen_result.wins + datagen_wld[1]
             /\ L = datagen_result.losses + datagen_wld[2]
             /\ D = datagen_result.draws + datagen_wld[3]
             /\ b[1] = 0
             /\ b[5] = 0
             /\ b[2] = Max(L - W, 0)
             /\ b[4] = Max(W - L, 0)
             /\ 2 * b[3] = (W + D + L) - 2 * diff
             /\ 2 * SumSeq(b) = W + L + D]_vars

\* C36: no statistics posted to the coordinator have a negative pentanomial
\* bucket, neither those of a match nor those of a datagen run
C36_PostedBucketsNonNegative ==
    /\ posts.last.api = "update_task" =>
          \A i \in 1..5 : posts.last.stats.pentanomial[i] >= 0
    /\ \A k \in 1..Len(posts.committed) :
          \A i \in 1..5 : posts.committed[k].stats.pentanomial[i] >= 0
    /\ dreplies # <<>> =>
          \A i \in 1..5 : datagen_result.pentanomial[i] >= 0

\* run_games is past the verification of the engines
PastVerification == pc \notin {"run_games", "verify_signature"} /\ verifications # <<>>

\* C32: run_games calls verify_signature on the base engine always and on
\* the new engine exactly when it is distinct: once when the two engines and
\* their signatures are the same, twice otherwise, whatever the call for the
\* base engine did
C32_VerifierCalls ==
    PastVerification =>
        IF Distinct(engines)
        THEN verifications = <<"base", "new">>
        ELSE verifications = <<"base">>

\* the lines the child wrote to stdout
StdoutLines == {[stream |-> "stdout", n |-> k] : k \in 1..out_count}

\* C33: when the loop has ended by break and parse_fastchess_output returns,
\* every line the child wrote to stdout has been taken from the queue
C33_EveryLineParsed ==
    rpc = "returned" =>
        StdoutLines \subseteq {taken[i] : i \in 1..Len(taken)}

\* every bench child has ended: it has put its result, or it ended without
\* putting one
BenchChildrenEnded ==
    /\ bench_pc # "none"
    /\ \A c \in 1..bench_args.active_cores :
          bench_args.children[c].put => \E i \in 1..Len(queue) : queue[i] = c

\* C34: once every bench child has ended, verify_signature returns or raises
C34_VerifySignatureTerminates ==
    BenchChildrenEnded ~> bench_pc \in {"returned", "raised"}

\* the cache holds bytes under the name of the network and they do not
\* validate against that name
StaleCacheEntry ==
    LET cached == cache_read(nargs.global_cache, nargs.net)
    IN  cached.found /\ ~validate_net(cached, nargs.net)

\* C35: while the cache holds bytes under the network name that do not
\* validate against it, every attempt of establish_validated_net reads the
\* cache and takes those bytes, no GET is issued, the cache entry is never
\* replaced, the call never returns once it has made an attempt, and the
\* WorkerException it ends with comes after the last attempt the loop allows
C35_StaleCacheNeverRefetched ==
    /\ [](StaleCacheEntry =>
            /\ gets = 0
            /\ cache_reads = net_attempt
            /\ net_attempt >= 1 => npc # "returned"
            /\ npc = "raised" /\ nerror = "WorkerException" =>
                  net_attempt = NetAttempts + 1)
    /\ [][StaleCacheEntry =>
            /\ StaleCacheEntry'
            /\ cache_read(nargs.global_cache, nargs.net)' =
                  cache_read(nargs.global_cache, nargs.net)
            /\ net_attempt' # net_attempt =>
                  /\ net_attempt' = net_attempt + 1
                  /\ content' = cache_read(nargs.global_cache, nargs.net).bytes
                  /\ npc' = "write_bytes"]_vars

\* the call gave up after its last attempt, each of which took the stale
\* bytes from the cache, without a single GET
C35_Witness ==
    /\ StaleCacheEntry
    /\ npc = "raised"
    /\ nerror = "WorkerException"
    /\ net_attempt = NetAttempts + 1
    /\ cache_reads = NetAttempts + 1
    /\ dest_writes = NetAttempts + 1
    /\ gets = 0

====
